---- MODULE Spec2Model ----
(***************************************************************************)
(* A state-machine model of laplace/baselaplace.py: one Laplace object     *)
(* (FullLaplace, KronLaplace, DiagLaplace or FunctionalLaplace) wrapped    *)
(* around one torch model.  Every public method is a handler, written as   *)
(* an operator from a "world" (the object, the model, the exception in     *)
(* flight, the value returned, the curvature-backend calls made) to the    *)
(* world after the call, so that a handler calling another one composes    *)
(* them as the Python code does.  An action applies one handler to the     *)
(* current state and records the outcome of the call in ret.               *)
(*                                                                         *)
(* Numbers: tensors are sequences of integers.  A dense or diagonal        *)
(* curvature is modelled by one natural number h standing for h * I, a     *)
(* posterior precision by its diagonal of exact rationals <<num, den>>.    *)
(* An optional value (None or x) is the sequence <<>> or <<x>>.            *)
(***************************************************************************)
EXTENDS Integers, Sequences, FiniteSets, TLC

VARIABLES
    la,      \* the Laplace object: a record of its attributes
    model,   \* the wrapped torch.nn.Module: live parameters, training flag
    ret,     \* outcome of the last call: method, arguments, exception, value
    fit_called   \* history: fit has been called on la (by the user)

vars == <<la, model, ret, fit_called>>

(***************************************************************************)
(* Bounds of the model.                                                    *)
(***************************************************************************)
MaxData == 2        \* examples in a data set
MaxSamples == 2     \* n_samples of a sampling prediction
MaxGrid == 2        \* grid_size of the CV grid search
MaxLoss == 2        \* cap of the accumulated loss (FunctionalLaplace re-fits)
MaxSteps == 1       \* n_steps of the marginal-likelihood optimisation
MaxCacheGrid == 1   \* grid_size of a grid search between reads of the cache
MaxBatch == 2       \* batch_size of a loader
MaxInducing == 3    \* examples in the data set a kernel is built from
MaxLayers == 2      \* layers of a model the prior precision is expanded for
MaxWidth == 2       \* parameters of one layer of such a model
MaxInputs == 2      \* inputs the Jacobians of a model are tabulated at
MaxOutputs == 2     \* outputs of a model with tabulated Jacobians

(***************************************************************************)
(* Value domains the inputs are drawn from.                                *)
(***************************************************************************)
None == <<>>
Some(v) == <<v>>
Get(o) == o[1]

Classes == {"FullLaplace", "KronLaplace", "DiagLaplace", "FunctionalLaplace"}
Parametric == {"FullLaplace", "KronLaplace", "DiagLaplace"}
Likelihoods == {"classification", "regression"}
\* parameters per layer of the wrapped model: n_layers = Len, n_params = sum
Architectures == {<<1, 3>>}
ExampleVals == {1, 2}       \* one training example, named by its loss
SigmaVals == {1, 2}         \* noise scales
MapParamVals == {0}         \* the parameter vector of the trained model
LossVals == {0, 1}          \* validation losses of the grid search
OutputWidths == {2}         \* width of the model's output
TemperatureVals == {1}      \* temperatures given to the constructor

RECURSIVE SumSeq(_)
SumSeq(s) == IF s = <<>> THEN 0 ELSE s[1] + SumSeq(Tail(s))

RECURSIVE GCD(_, _)
GCD(a, b) == IF b = 0 THEN a ELSE GCD(b, a % b)

\* the rational n/d in lowest terms
Rat(n, d) == LET g == GCD(n, d) IN <<n \div g, d \div g>>

\* sequences over S of length lo..hi
SeqsOf(S, lo, hi) == UNION {[1..n -> S] : n \in lo..hi}

(***************************************************************************)
(* Python values handed to the setters: a real scalar, a tensor of 0, 1    *)
(* or 2 dimensions, or something that is neither (None, a list, ...).      *)
(***************************************************************************)
Scalar(v) == [kind |-> "scalar", ndim |-> 0, data |-> <<v>>]
Tensor(nd, d) == [kind |-> "tensor", ndim |-> nd, data |-> d]
NonNumeric == [kind |-> "other", ndim |-> 0, data |-> <<>>]

(***************************************************************************)
(* Worlds and exceptions.                                                  *)
(***************************************************************************)
World(l, m) == [la |-> l, model |-> m, exc |-> "none", val |-> None, calls |-> <<>>]
Raise(w, e) == [w EXCEPT !.exc = e]
Return(w, v) == [w EXCEPT !.val = Some(v)]
Ok(w) == w.exc = "none"

(***************************************************************************)
(* Statement sequencing.                                                   *)
(***************************************************************************)
\* the element of a singleton set
Only(S) == CHOOSE r \in S : TRUE

\* Let([x \in {v} |-> body]) is the statement `x = v` followed by the
\* statements body; v is evaluated once.  Where v is a call, body starts with
\* IF ~Ok(x) THEN x: an exception the call raised skips the statements after it
Let(f) == Only(UNION {{g[x] : x \in DOMAIN g} : g \in {f}})

\* the value v with every entry computed
Eager(v) == Let([x \in {v} |-> IF x = x THEN x ELSE x])

n_params(l) == SumSeq(l.layers)
n_layers(l) == Len(l.layers)

(***************************************************************************)
(* BaseLaplace: the prior precision and noise properties.                  *)
(***************************************************************************)
\* the prior precision setter without `self._posterior_scale = None`
BaseSetPriorPrecision_keep_scale(w, pp) ==
    IF pp.kind = "scalar"
    THEN [w EXCEPT !.la._prior_precision = <<pp.data[1]>>]
    ELSE IF pp.kind = "tensor"
    THEN IF pp.ndim = 0
         THEN [w EXCEPT !.la._prior_precision = <<pp.data[1]>>]
         ELSE IF pp.ndim = 1
         THEN IF Len(pp.data) \notin {1, n_layers(w.la), n_params(w.la)}
              THEN Raise(w, "ValueError")
              ELSE [w EXCEPT !.la._prior_precision = pp.data]
         ELSE Raise(w, "ValueError")
    ELSE Raise(w, "ValueError")

\* the prior precision setter storing a 1-dimensional tensor before it
\* checks the length
BaseSetPriorPrecision_store_first(w, pp) ==
    LET w1 == [w EXCEPT !.la._posterior_scale = None] IN
    IF pp.kind = "scalar"
    THEN [w1 EXCEPT !.la._prior_precision = <<pp.data[1]>>]
    ELSE IF pp.kind = "tensor"
    THEN IF pp.ndim = 0
         THEN [w1 EXCEPT !.la._prior_precision = <<pp.data[1]>>]
         ELSE IF pp.ndim = 1
         THEN IF Len(pp.data) \notin {1, n_layers(w.la), n_params(w.la)}
              THEN Raise([w1 EXCEPT !.la._prior_precision = pp.data], "ValueError")
              ELSE [w1 EXCEPT !.la._prior_precision = pp.data]
         ELSE Raise(w1, "ValueError")
    ELSE Raise(w1, "ValueError")

\* BaseLaplace.prior_precision.setter
BaseSetPriorPrecision(w, pp) ==
    LET w1 == [w EXCEPT !.la._posterior_scale = None] IN
    IF pp.kind = "scalar"
    THEN [w1 EXCEPT !.la._prior_precision = <<pp.data[1]>>]
    ELSE IF pp.kind = "tensor"
    THEN IF pp.ndim = 0
         THEN [w1 EXCEPT !.la._prior_precision = <<pp.data[1]>>]
         ELSE IF pp.ndim = 1
         THEN IF Len(pp.data) \notin {1, n_layers(w.la), n_params(w.la)}
              THEN Raise(w1, "ValueError")
              ELSE [w1 EXCEPT !.la._prior_precision = pp.data]
         ELSE Raise(w1, "ValueError")
    ELSE Raise(w1, "ValueError")

\* KronLaplace.prior_precision.setter: the base setter, then the length check
KronSetPriorPrecision(w, pp) ==
    Let([w1 \in {BaseSetPriorPrecision(w, pp)} |-> IF ~Ok(w1) THEN w1 ELSE
    IF Len(w1.la._prior_precision) \notin {1, n_layers(w1.la)}
    THEN Raise(w1, "ValueError")
    ELSE w1])

\* self.prior_precision = pp, dispatched on the class of self
SetPriorPrecision(w, pp) ==
    IF w.la.cls = "KronLaplace" THEN KronSetPriorPrecision(w, pp)
    ELSE BaseSetPriorPrecision(w, pp)

\* BaseLaplace.sigma_noise.setter
SetSigmaNoise(w, sn) ==
    LET w1 == [w EXCEPT !.la._posterior_scale = None] IN
    IF sn.kind = "scalar"
    THEN [w1 EXCEPT !.la._sigma_noise = sn.data[1]]
    ELSE IF sn.kind = "tensor"
    THEN IF sn.ndim = 0
         THEN [w1 EXCEPT !.la._sigma_noise = sn.data[1]]
         ELSE IF sn.ndim = 1
         THEN IF Len(sn.data) > 1
              THEN Raise(w1, "ValueError")
              ELSE [w1 EXCEPT !.la._sigma_noise = sn.data[1]]
         ELSE Raise(w1, "ValueError")
    ELSE Raise(w1, "ValueError")

\* BaseLaplace._H_factor = 1 / sigma_noise^2 / temperature
H_factor(l) == Rat(1, l._sigma_noise * l._sigma_noise * l.temperature)

\* the per-layer expansion repeating the first value for every layer
RECURSIVE PerLayer_first(_, _)
PerLayer_first(pp, layers) ==
    IF layers = <<>> THEN <<>>
    ELSE [i \in 1..layers[1] |-> pp[1]] \o PerLayer_first(pp, Tail(layers))

RECURSIVE PerLayer(_, _)
PerLayer(pp, layers) ==
    IF layers = <<>> THEN <<>>
    ELSE [i \in 1..layers[1] |-> pp[1]] \o PerLayer(Tail(pp), Tail(layers))

\* BaseLaplace.prior_precision_diag; <<>> stands for the ValueError of the
\* last branch
prior_precision_diag(l) ==
    IF Len(l._prior_precision) = 1
    THEN [i \in 1..n_params(l) |-> l._prior_precision[1]]
    ELSE IF Len(l._prior_precision) = n_params(l)
    THEN l._prior_precision
    ELSE IF Len(l._prior_precision) = n_layers(l)
    THEN PerLayer(l._prior_precision, l.layers)
    ELSE <<>>

\* a read of la.prior_precision_diag
PriorPrecisionDiag(w) ==
    LET d == prior_precision_diag(w.la) IN
    IF d = <<>> THEN Raise(w, "ValueError") ELSE Return(w, d)

(***************************************************************************)
(* Construction.  args: cls, likelihood, layers, sigma_noise,              *)
(* prior_precision, temperature, backend, params, n_outputs, and for the   *)
(* functional class M, diagonal_kernel, diagonal_L.                        *)
(***************************************************************************)
\* the attributes before any assignment of __init__
Blank(args) ==
    [cls |-> args.cls, likelihood |-> args.likelihood, layers |-> args.layers,
     backend |-> args.backend,
     _prior_precision |-> <<>>, _prior_mean |-> 0, _sigma_noise |-> 0,
     temperature |-> 0, loss |-> 0, n_outputs |-> None, n_data |-> None,
     map_estimate |-> 0, H |-> None, _posterior_scale |-> None,
     damping |-> FALSE,
     M |-> None, diagonal_kernel |-> FALSE, diagonal_L |-> TRUE,
     K_MM |-> None, Sigma_inv |-> None, train_loader |-> None,
     batch_size |-> None, prior_factor_sod |-> None, mu |-> None]

\* BaseLaplace.__init__
BaseInit(args, m) ==
    IF args.likelihood \notin {"classification", "regression"}
    THEN Raise(World(Blank(args), m), "ValueError")
    ELSE Let([w1 \in {SetPriorPrecision(World(Blank(args), m), args.prior_precision)} |-> IF ~Ok(w1) THEN w1 ELSE
         IF args.sigma_noise # Scalar(1) /\ args.likelihood # "regression"
         THEN Raise(w1, "ValueError")
         ELSE Let([w2 \in {SetSigmaNoise(w1, args.sigma_noise)} |-> IF ~Ok(w2) THEN w2 ELSE
              [w2 EXCEPT !.la.temperature = args.temperature,
                         !.la.loss = 0,
                         !.la.n_outputs = None,
                         !.la.n_data = None,
                         !.la.map_estimate = m.params]])])

\* ParametricLaplace.__init__, FullLaplace.__init__, KronLaplace.__init__
ParametricInit(args, m) ==
    IF args.backend \notin {"BackPackGGN", "BackPackEF", "AsdlGGN", "AsdlEF"}
    THEN Raise(World(Blank(args), m), "AssertionError")
    ELSE Let([w1 \in {BaseInit(args, m)} |-> IF ~Ok(w1) THEN w1 ELSE
         [w1 EXCEPT !.la.H = None, !.la._posterior_scale = None,
                    !.la.damping = args.damping]])

\* FunctionalLaplace.__init__ without the assertion on diagonal_L
FunctionalInit_unchecked(args, m) ==
    IF args.backend \notin {"BackPackInterface"}
    THEN Raise(World(Blank(args), m), "AssertionError")
    ELSE Let([w1 \in {BaseInit(args, m)} |-> IF ~Ok(w1) THEN w1 ELSE
         [w1 EXCEPT !.la.M = args.M,
                    !.la.diagonal_kernel = args.diagonal_kernel,
                    !.la.diagonal_L = args.diagonal_L]])

\* FunctionalLaplace.__init__
FunctionalInit(args, m) ==
    IF args.backend \notin {"BackPackInterface"}
    THEN Raise(World(Blank(args), m), "AssertionError")
    ELSE Let([w1 \in {BaseInit(args, m)} |-> IF ~Ok(w1) THEN w1 ELSE
         LET w2 == [w1 EXCEPT !.la.M = args.M,
                              !.la.diagonal_kernel = args.diagonal_kernel,
                              !.la.diagonal_L = args.diagonal_L] IN
         IF ~args.diagonal_kernel /\ args.likelihood = "classification"
            /\ ~args.diagonal_L
         THEN Raise(w2, "AssertionError")
         ELSE w2])

Construct(args, m) ==
    IF args.cls = "FunctionalLaplace" THEN FunctionalInit(args, m)
    ELSE ParametricInit(args, m)

(***************************************************************************)
(* Data loaders.  A loader iterates the examples dataset[i], i in indices  *)
(* (the sampler), in batches of batch_size; the last batch may be partial. *)
(***************************************************************************)
BatchSizes == {1}

Loader(d, b) == [dataset |-> d, batch_size |-> b, indices |-> [i \in 1..Len(d) |-> i]]

Loaders == {Loader(d, b) : d \in SeqsOf(ExampleVals, 0, MaxData), b \in BatchSizes}

\* loaders over data sets of up to MaxInducing examples of loss 0
KernelLoaders ==
    {Loader([i \in 1..n |-> 0], b) : n \in 0..MaxInducing, b \in 1..MaxBatch}

\* loaders of every batch size up to MaxBatch: a batch of several examples,
\* a final partial batch
BatchedLoaders ==
    {Loader(d, b) : d \in SeqsOf(ExampleVals, 0, MaxData), b \in 1..MaxBatch}

RECURSIVE Chunks(_, _)
Chunks(s, b) ==
    IF s = <<>> THEN <<>>
    ELSE IF Len(s) <= b THEN <<s>>
    ELSE <<SubSeq(s, 1, b)>> \o Chunks(SubSeq(s, b + 1, Len(s)), b)

\* the batches `for X, y in loader` yields, in order
Batches(loader) ==
    Chunks([k \in 1..Len(loader.indices) |-> loader.dataset[loader.indices[k]]],
           loader.batch_size)

(***************************************************************************)
(* The curvature backend (laplace/curvature.py): the loss and the          *)
(* curvature of a batch are sums over its examples.                        *)
(***************************************************************************)
\* CurvatureInterface._get_full_ggn, BackPackGGN.diag/.kron: the batch loss
BackendLoss(batch) == SumSeq(batch)

\* the batch curvature (GGN summed over the examples of the batch)
BackendCurv(batch) == SumSeq([k \in 1..Len(batch) |-> batch[k] + 1])

\* the backend method _curv_closure calls
CurvMethod(l) ==
    IF l.cls = "FullLaplace" THEN "full"
    ELSE IF l.cls = "KronLaplace" THEN "kron"
    ELSE IF l.cls = "DiagLaplace" THEN "diag"
    ELSE "gp_quantities"

(***************************************************************************)
(* ParametricLaplace.fit                                                   *)
(***************************************************************************)
\* FullLaplace._init_H, KronLaplace._init_H, DiagLaplace._init_H
init_H(w) ==
    [w EXCEPT !.la.H = Some([rep |-> IF w.la.cls = "FullLaplace" THEN "dense"
                                     ELSE IF w.la.cls = "KronLaplace" THEN "kron"
                                     ELSE "diag",
                             val |-> 0])]

\* ParametricLaplace._check_fit
ParametricCheckFit(w) ==
    IF w.la.H = None THEN Raise(w, "AttributeError") ELSE w

\* the loop of ParametricLaplace.fit with `self.loss = loss_batch` in place of
\* `self.loss += loss_batch`
RECURSIVE FitLoop_assign(_, _, _, _, _)
FitLoop_assign(w, batches, k, failAt, N) ==
    IF k > Len(batches) THEN w
    ELSE LET call == [fn |-> CurvMethod(w.la), batch |-> batches[k], N |-> N]
             w1 == [w EXCEPT !.calls = Append(@, call)]
         IN IF k = failAt THEN Raise(w1, "RuntimeError")
            ELSE FitLoop_assign([w1 EXCEPT !.la.loss = BackendLoss(batches[k]),
                                           !.la.H = Some([Get(@) EXCEPT
                                               !.val = @ + BackendCurv(batches[k])])],
                                batches, k + 1, failAt, N)

\* the loop `for X, y in train_loader` of ParametricLaplace.fit from batch k
\* on; the backend raises at batch failAt (0: at none)
RECURSIVE FitLoop(_, _, _, _, _)
FitLoop(w, batches, k, failAt, N) ==
    IF k > Len(batches) THEN w
    ELSE LET call == [fn |-> CurvMethod(w.la), batch |-> batches[k], N |-> N]
             w1 == [w EXCEPT !.calls = Append(@, call),
                             !.model.modes = @ \cup {<<"backend", w.model.training>>}]
         IN IF k = failAt THEN Raise(w1, "RuntimeError")
            ELSE FitLoop([w1 EXCEPT !.la.loss = @ + BackendLoss(batches[k]),
                                    !.la.H = Some([Get(@) EXCEPT
                                        !.val = @ + BackendCurv(batches[k])])],
                         batches, k + 1, failAt, N)

\* ParametricLaplace.fit without its guard `if self.H is not None: raise`
ParametricFit_unguarded(w, loader, failAt) ==
    LET w2 == [init_H(w) EXCEPT !.model.training = FALSE]
        N == Len(loader.dataset)
    IN IF Batches(loader) = <<>> THEN Raise(w2, "StopIteration")
       ELSE Let([w4 \in {FitLoop([w2 EXCEPT !.la.n_outputs = Some(w.model.n_outputs),
                                      !.model.modes = @ \cup {<<"forward", w2.model.training>>}],
                         Batches(loader), 1, failAt, N)} |-> IF ~Ok(w4) THEN w4 ELSE [w4 EXCEPT !.la.n_data = Some(N)]])

\* ParametricLaplace.fit
ParametricFit(w, loader, failAt) ==
    IF w.la.H # None THEN Raise(w, "ValueError")
    ELSE LET w2 == [init_H(w) EXCEPT !.model.training = FALSE]
             N == Len(loader.dataset)
         IN IF Batches(loader) = <<>> THEN Raise(w2, "StopIteration")
            ELSE Let([w4 \in {FitLoop([w2 EXCEPT !.la.n_outputs = Some(w.model.n_outputs),
                                      !.model.modes = @ \cup {<<"forward", w2.model.training>>}],
                              Batches(loader), 1, failAt, N)} |-> IF ~Ok(w4) THEN w4 ELSE [w4 EXCEPT !.la.n_data = Some(N)]])

\* KronLaplace.fit (keep_factors=False): the base fit, then the decomposition
KronFit(w, loader, failAt) ==
    Let([w1 \in {ParametricFit(w, loader, failAt)} |-> IF ~Ok(w1) THEN w1 ELSE
    [w1 EXCEPT !.la.H = Some([rep |-> "kron_decomposed",
                              val |-> Get(w1.la.H).val])]])

(***************************************************************************)
(* FunctionalLaplace.fit                                                   *)
(***************************************************************************)
\* FunctionalLaplace._check_fit
FunctionalCheckFit(w) ==
    IF w.la.K_MM = None \/ w.la.Sigma_inv = None \/ w.la.train_loader = None
    THEN Raise(w, "AttributeError")
    ELSE w

\* FunctionalLaplace._get_SoD_data_loader: the seeded sampler keeps M
\* examples of the data set
SoDLoader(loader, M) ==
    [dataset |-> loader.dataset, batch_size |-> loader.batch_size,
     indices |-> [i \in 1..M |-> i]]

\* FunctionalLaplace._init_K_MM: an all-zero kernel, no block written
ZeroK == [prior |-> <<>>, sod |-> <<0, 1>>, blocks |-> {}, points |-> <<>>,
          entries |-> <<>>]

\* FunctionalLaplace._init_Sigma_inv
ZeroSigma == [K |-> ZeroK, H_factor |-> <<0, 1>>, factored |-> FALSE]

Min(a, b) == IF a < b THEN a ELSE b

\* the rows of K_MM one example takes: one in each of the n_outputs matrices
\* of the diagonal kernel (which are written alike; the model holds one of
\* them), n_outputs in the one matrix of the full kernel
RowsPerPoint(l) == IF l.diagonal_kernel THEN 1 ELSE Get(l.n_outputs)

\* the entries of the zero matrix of _init_K_MM, none of them written
ZeroEntries(n) == [rc \in (0..(n - 1)) \X (0..(n - 1)) |-> None]

\* the slice i * b : min((i + 1) * b, M)
Slice(i, b, M) == (i * b)..(Min((i + 1) * b, M) - 1)

\* FunctionalLaplace._kernel_batch for the batches i and j, of ni and nj
\* rows: entry (x, y) is the kernel of row x of batch i and row y of batch j,
\* written <<r, c>> for the kernel of the rows r and c of the inducing set
KernelBatch(i, j, ni, nj, b) ==
    [xy \in (0..(ni - 1)) \X (0..(nj - 1)) |-> <<i * b + xy[1], j * b + xy[2]>>]

\* _store_K_batch without the assignment of the transposed block
StoreKBatch_upper(K, Kb, i, j, b, M) ==
    [K EXCEPT !.blocks = @ \cup {<<i, j>>},
              !.entries = [rc \in DOMAIN @ |->
                  IF rc[1] \in Slice(i, b, M) /\ rc[2] \in Slice(j, b, M)
                  THEN Some(Kb[<<rc[1] - i * b, rc[2] - j * b>>])
                  ELSE @[rc]]]

\* FunctionalLaplace._store_K_batch: K_batch is assigned to the slice
\* (i, j) and, for i # j, its transpose to the slice (j, i); b and M count
\* rows
StoreKBatch(K, Kb, i, j, b, M) ==
    [K EXCEPT !.blocks = @ \cup {<<i, j>>, <<j, i>>},
              !.entries = [rc \in DOMAIN @ |->
                  IF i # j /\ rc[1] \in Slice(j, b, M) /\ rc[2] \in Slice(i, b, M)
                  THEN Some(Kb[<<rc[2] - i * b, rc[1] - j * b>>])
                  ELSE IF rc[1] \in Slice(i, b, M) /\ rc[2] \in Slice(j, b, M)
                  THEN Some(Kb[<<rc[1] - i * b, rc[2] - j * b>>])
                  ELSE @[rc]]]

\* the loop `for j, batch_2 in enumerate(train_loader)` of row i from batch j
\* on: for j >= i the kernel of the batches i and j is computed, with the
\* prior precision and the factor M / N of the moment, and stored
RECURSIVE KernelLoop(_, _, _, _)
KernelLoop(w, batches, i, j) ==
    IF j >= Len(batches) THEN w
    ELSE IF j < i THEN KernelLoop(w, batches, i, j + 1)
    ELSE LET u == RowsPerPoint(w.la)
             Kb == KernelBatch(i, j, Len(batches[i + 1]) * u, Len(batches[j + 1]) * u,
                               Get(w.la.batch_size) * u)
             call == [fn |-> "_kernel_batch", pair |-> <<i, j>>, batch |-> batches[j + 1]]
         IN KernelLoop([w EXCEPT !.calls = Append(@, call),
                                 !.la.K_MM = Some(Eager([StoreKBatch(Get(@), Kb, i, j,
                                                      Get(w.la.batch_size) * u,
                                                      Get(w.la.M) * u)
                                     EXCEPT !.prior = prior_precision_diag(w.la),
                                            !.sod = Get(w.la.prior_factor_sod)]))],
                       batches, i, j + 1)

\* the loop `for i, batch in enumerate(train_loader)` of FunctionalLaplace.fit
\* from batch k on (k = i + 1)
RECURSIVE GPFitLoop(_, _, _, _)
GPFitLoop(w, batches, k, failAt) ==
    IF k > Len(batches) THEN w
    ELSE LET call == [fn |-> "gp_quantities", batch |-> batches[k],
                      N |-> Get(w.la.n_data)]
             w1 == [w EXCEPT !.calls = Append(@, call),
                             !.model.modes = @ \cup {<<"backend", w.model.training>>}]
         IN IF k = failAt THEN Raise(w1, "RuntimeError")
            ELSE GPFitLoop(KernelLoop([w1 EXCEPT !.la.loss = @ + BackendLoss(batches[k])],
                                      batches, k - 1, 0),
                           batches, k + 1, failAt)

\* FunctionalLaplace.fit
FunctionalFit(w, loader, failAt) ==
    IF Batches(loader) = <<>> THEN Raise(w, "StopIteration")
    ELSE LET N == Len(loader.dataset)
             M == IF w.la.M = None THEN N ELSE Get(w.la.M)
             w1 == [w EXCEPT !.la.n_outputs = Some(w.model.n_outputs),
                             !.model.modes = @ \cup {<<"forward", w.model.training>>},
                             !.la.batch_size = Some(loader.batch_size),
                             !.model.training = FALSE,
                             !.la.n_data = Some(N),
                             !.la.M = Some(M)]
         IN IF M > N THEN Raise(w1, "ValueError")
            ELSE LET sod == SoDLoader(loader, M)
                     w2 == [w1 EXCEPT !.la.train_loader = Some(sod),
                                      !.la.prior_factor_sod = Some(Rat(M, N)),
                                      !.la.K_MM = Some([ZeroK EXCEPT
                                          !.points = Batches(sod),
                                          !.entries = ZeroEntries(
                                              M * RowsPerPoint(w1.la))]),
                                      !.la.Sigma_inv = Some(ZeroSigma)]
                 IN Let([w3 \in {GPFitLoop(w2, Batches(sod), 1, failAt)} |-> IF ~Ok(w3) THEN w3 ELSE
                    IF w3.la.diagonal_kernel /\ ~w3.la.diagonal_L
                       /\ w3.la.likelihood # "regression"
                    THEN Raise(w3, "NotImplementedError")
                    ELSE LET w4 == [w3 EXCEPT !.la.Sigma_inv =
                                       Some([K |-> Get(w3.la.K_MM),
                                             H_factor |-> H_factor(w3.la),
                                             factored |-> TRUE])]
                         IN IF w3.la.likelihood = "regression"
                            THEN [w4 EXCEPT !.la.mu = Some(Batches(sod))]
                            ELSE w4])

\* la.fit(train_loader), dispatched on the class of la
FitOf(w, loader, failAt) ==
    IF w.la.cls = "FunctionalLaplace" THEN FunctionalFit(w, loader, failAt)
    ELSE IF w.la.cls = "KronLaplace" THEN KronFit(w, loader, failAt)
    ELSE ParametricFit(w, loader, failAt)

\* la._check_fit(), dispatched on the class of la
CheckFit(w) ==
    IF w.la.cls = "FunctionalLaplace" THEN FunctionalCheckFit(w)
    ELSE ParametricCheckFit(w)

(***************************************************************************)
(* Posterior queries.                                                      *)
(***************************************************************************)
\* H_factor * h + p as an exact rational
Precision(hf, h, p) == Rat(hf[1] * h + p * hf[2], hf[2])

\* posterior_precision adding the prior precision into self.H in place
DensePosteriorPrecision_inplace(w) ==
    Let([w1 \in {ParametricCheckFit(w)} |-> IF ~Ok(w1) THEN w1 ELSE
    LET d == prior_precision_diag(w1.la) IN
    IF d = <<>> THEN Raise(w1, "ValueError")
    ELSE Return([w1 EXCEPT !.la.H = Some([Get(@) EXCEPT !.val = @ + d[1]])],
                [i \in 1..Len(d) |->
                    Precision(H_factor(w1.la), Get(w1.la.H).val, d[i])])])

\* FullLaplace.posterior_precision: _H_factor * H + diag(prior_precision_diag)
\* DiagLaplace.posterior_precision: _H_factor * H + prior_precision_diag
DensePosteriorPrecision(w) ==
    Let([w1 \in {ParametricCheckFit(w)} |-> IF ~Ok(w1) THEN w1 ELSE
    LET d == prior_precision_diag(w1.la) IN
    IF d = <<>> THEN Raise(w1, "ValueError")
    ELSE Return(w1, [i \in 1..Len(d) |->
                        Precision(H_factor(w1.la), Get(w1.la.H).val, d[i])])])

\* KronLaplace.posterior_precision: H * _H_factor + prior_precision, defined
\* on the decomposed factors and a scalar or per-layer prior precision
KronPosteriorPrecision(w) ==
    Let([w1 \in {ParametricCheckFit(w)} |-> IF ~Ok(w1) THEN w1 ELSE
    IF Get(w1.la.H).rep # "kron_decomposed"
    THEN Raise(w1, "TypeError")
    ELSE IF Len(w1.la._prior_precision) \notin {1, n_layers(w1.la)}
    THEN Raise(w1, "ValueError")
    ELSE LET d == prior_precision_diag(w1.la) IN
         Return(w1, [i \in 1..Len(d) |->
                        Precision(H_factor(w1.la), Get(w1.la.H).val, d[i])])])

\* la.posterior_precision; FunctionalLaplace has no such attribute
PosteriorPrecision(w) ==
    IF w.la.cls = "FunctionalLaplace" THEN Raise(w, "AttributeError")
    ELSE IF w.la.cls = "KronLaplace" THEN KronPosteriorPrecision(w)
    ELSE DensePosteriorPrecision(w)

\* la.log_det_posterior_precision
LogDetPosteriorPrecision(w) ==
    Let([w1 \in {PosteriorPrecision(w)} |-> IF ~Ok(w1) THEN w1 ELSE Return(w1, [logdet |-> Get(w1.val)])])

\* ParametricLaplace.log_det_ratio:
\* log_det_posterior_precision - log_det_prior_precision
LogDetRatio(w) ==
    Let([w1 \in {LogDetPosteriorPrecision(w)} |-> IF ~Ok(w1) THEN w1 ELSE
    Return(w1, [logdet |-> Get(w1.val).logdet,
                prior |-> prior_precision_diag(w1.la)])])

\* laplace.utils.invsqrt_precision: the scale is determined by the precision
InvSqrt(prec) == [invsqrt |-> prec]

\* FullLaplace._compute_scale
compute_scale(w) ==
    Let([w1 \in {PosteriorPrecision(w)} |-> IF ~Ok(w1) THEN w1 ELSE
    [w1 EXCEPT !.la._posterior_scale = Some(InvSqrt(Get(w1.val))),
               !.val = None]])

\* FullLaplace.posterior_scale
FullPosteriorScale(w) ==
    Let([w1 \in {IF w.la._posterior_scale = None THEN compute_scale(w) ELSE w} |-> IF ~Ok(w1) THEN w1 ELSE Return(w1, Get(w1.la._posterior_scale))])

\* DiagLaplace.posterior_scale: 1 / sqrt(posterior_precision), not cached
DiagPosteriorScale(w) ==
    Let([w1 \in {PosteriorPrecision(w)} |-> IF ~Ok(w1) THEN w1 ELSE Return(w1, InvSqrt(Get(w1.val)))])

\* la.posterior_scale
PosteriorScale(w) ==
    IF w.la.cls = "FullLaplace" THEN FullPosteriorScale(w)
    ELSE IF w.la.cls = "DiagLaplace" THEN DiagPosteriorScale(w)
    ELSE Raise(w, "AttributeError")

\* la.sample(n_samples): draws are the vectors the random generator yields
SampleOf(w, draws) ==
    IF w.la.cls = "FunctionalLaplace" THEN Raise(w, "AttributeError")
    ELSE Let([w1 \in {IF w.la.cls = "KronLaplace" THEN PosteriorPrecision(w)
              ELSE PosteriorScale(w)} |-> IF ~Ok(w1) THEN w1 ELSE Return(w1, draws)])

\* la.functional_variance(Js) for Jacobians of the right type and shape
FunctionalVariance(w) ==
    IF w.la.cls = "FunctionalLaplace" THEN Raise(w, "AttributeError")
    ELSE Let([w1 \in {IF w.la.cls = "FullLaplace" THEN PosteriorScale(w)
              ELSE PosteriorPrecision(w)} |-> IF ~Ok(w1) THEN w1 ELSE Return(w1, [f_var |-> Get(w1.val)])])

\* BaseLaplace.log_likelihood
LogLikelihood(w) ==
    Let([w1 \in {CheckFit(w)} |-> IF ~Ok(w1) THEN w1 ELSE
    LET hf == H_factor(w1.la) IN
    IF w1.la.likelihood = "regression"
    THEN IF w1.la.n_data = None \/ w1.la.n_outputs = None
         THEN Raise(w1, "TypeError")
         ELSE Return(w1, [fit |-> Rat(hf[1] * w1.la.loss, hf[2]),
                          c |-> <<Get(w1.la.n_data) * Get(w1.la.n_outputs),
                                  w1.la._sigma_noise>>])
    ELSE Return(w1, [fit |-> Rat(hf[1] * w1.la.loss, hf[2]), c |-> <<>>])])

\* ParametricLaplace._log_marginal_likelihood:
\* log_likelihood - 0.5 * (log_det_ratio + scatter)
ParametricLML(w) ==
    Let([w1 \in {LogLikelihood(w)} |-> IF ~Ok(w1) THEN w1 ELSE
    Let([w2 \in {LogDetPosteriorPrecision(w1)} |-> IF ~Ok(w2) THEN w2 ELSE
    Return(w2, [log_lik |-> Get(w1.val), log_det |-> Get(w2.val),
                prior |-> prior_precision_diag(w2.la)])])])

\* _log_marginal_likelihood evaluating the regression formula for every
\* likelihood
FunctionalLML_any(w, failAt) ==
    Let([w1 \in {FunctionalFit(w, Get(w.la.train_loader), failAt)} |-> IF ~Ok(w1) THEN w1 ELSE
    Return(w1, [K |-> Get(w1.la.K_MM), mu |-> w1.la.mu,
                sigma |-> w1.la._sigma_noise])])

\* FunctionalLaplace._log_marginal_likelihood: fits again, then evaluates
FunctionalLML(w, failAt) ==
    Let([w1 \in {FunctionalFit(w, Get(w.la.train_loader), failAt)} |-> IF ~Ok(w1) THEN w1 ELSE
    IF w1.la.likelihood = "classification"
    THEN Raise(w1, "NotImplementedError")
    ELSE Return(w1, [K |-> Get(w1.la.K_MM), mu |-> Get(w1.la.mu),
                     sigma |-> w1.la._sigma_noise])])

\* log_marginal_likelihood assigning its arguments before self._check_fit()
LogMarginalLikelihood_assign_first(w, pp, sn, failAt) ==
    Let([w2 \in {IF pp # None THEN SetPriorPrecision(w, Get(pp)) ELSE w} |-> IF ~Ok(w2) THEN w2 ELSE
    Let([w3 \in {IF sn = None THEN w2
         ELSE IF w2.la.likelihood # "regression" THEN Raise(w2, "ValueError")
         ELSE SetSigmaNoise(w2, Get(sn))} |-> IF ~Ok(w3) THEN w3 ELSE
    Let([w1 \in {CheckFit(w3)} |-> IF ~Ok(w1) THEN w1 ELSE
    IF w1.la.cls = "FunctionalLaplace" THEN FunctionalLML(w1, failAt)
    ELSE ParametricLML(w1)])])])

\* BaseLaplace.log_marginal_likelihood(prior_precision, sigma_noise); an
\* argument that is not given is None
LogMarginalLikelihood(w, pp, sn, failAt) ==
    Let([w1 \in {CheckFit(w)} |-> IF ~Ok(w1) THEN w1 ELSE
    Let([w2 \in {IF pp # None THEN SetPriorPrecision(w1, Get(pp)) ELSE w1} |-> IF ~Ok(w2) THEN w2 ELSE
    Let([w3 \in {IF sn = None THEN w2
         ELSE IF w2.la.likelihood # "regression" THEN Raise(w2, "ValueError")
         ELSE SetSigmaNoise(w2, Get(sn))} |-> IF ~Ok(w3) THEN w3 ELSE
    IF w3.la.cls = "FunctionalLaplace" THEN FunctionalLML(w3, failAt)
    ELSE ParametricLML(w3)])])])

(***************************************************************************)
(* Prediction.                                                             *)
(***************************************************************************)
PredTypes == {"glm", "nn", "gp"}
LinkApprox == {"mc", "probit", "bridge", "logit"}

\* the n parameter vectors a sampling prediction draws: draw k is the vector k
Draws(n) == [k \in 1..n |-> k]

\* MultivariateNormal(f_mu, f_var): pd tells whether the covariance f_var is
\* positive definite; the constructor raises when it is not
MultivariateNormal(w, pd) ==
    IF pd THEN Return(w, [dist |-> "MultivariateNormal", f |-> Get(w.val)])
    ELSE Raise(w, "ValueError")

\* BaseLaplace._classification_predictive: for 'mc' the samples come from
\* MultivariateNormal(f_mu, f_var), and from Normal(f_mu, sqrt(diag(f_var)))
\* when its constructor raises
ClassificationPredictive(w, link_approx, pd) ==
    IF link_approx \notin {"mc", "probit", "bridge"}
    THEN Raise(w, "ValueError")
    ELSE IF link_approx = "mc"
    THEN Let([w1 \in {MultivariateNormal(w, pd)} |->
         IF Ok(w1) THEN Return(w1, [link |-> link_approx, f |-> Get(w1.val)])
         ELSE Return([w1 EXCEPT !.exc = "none"],
                     [link |-> link_approx,
                      f |-> [dist |-> "Normal", f |-> Get(w.val)]])])
    ELSE Return(w, [link |-> link_approx, f |-> Get(w.val)])

\* ParametricLaplace._glm_predictive_distribution
glm_predictive_distribution(w) == FunctionalVariance(w)

\* the loop of _nn_predictive_samples from draw k on: the model raises on
\* the forward pass of draw failAt (0: on none)
RECURSIVE SampleLoop(_, _, _, _)
SampleLoop(w, draws, k, failAt) ==
    IF k > Len(draws) THEN w
    ELSE LET w1 == [w EXCEPT !.model.params = draws[k]] IN
         IF k = failAt THEN Raise(w1, "RuntimeError")
         ELSE SampleLoop(w1, draws, k + 1, failAt)

\* ParametricLaplace._nn_predictive_samples; torch.stack raises on an empty
\* list of outputs
nn_predictive_samples(w, draws, failAt) ==
    Let([w1 \in {SampleOf(w, draws)} |-> IF ~Ok(w1) THEN w1 ELSE
    Let([w2 \in {SampleLoop(w1, draws, 1, failAt)} |-> IF ~Ok(w2) THEN w2 ELSE
    LET w3 == [w2 EXCEPT !.model.params = w2.la.map_estimate] IN
    IF draws = <<>> THEN Raise(w3, "RuntimeError")
    ELSE Return(w3, [fs |-> draws])])])

\* ParametricLaplace.__call__
ParametricCall(w, pred_type, link_approx, draws, failAt, pd) ==
    Let([w1 \in {ParametricCheckFit(w)} |-> IF ~Ok(w1) THEN w1 ELSE
    IF pred_type \notin {"glm", "nn"} THEN Raise(w1, "ValueError")
    ELSE IF pred_type = "glm"
    THEN Let([w2 \in {glm_predictive_distribution(w1)} |-> IF ~Ok(w2) THEN w2 ELSE
         IF w2.la.likelihood = "regression" THEN w2
         ELSE ClassificationPredictive(w2, link_approx, pd)])
    ELSE nn_predictive_samples(w1, draws, failAt)])

\* FunctionalLaplace.gp_posterior: the test kernels use the current prior
\* precision, the inducing-point factor is the stored Sigma_inv
gp_posterior(w) ==
    Let([w1 \in {FunctionalCheckFit(w)} |-> IF ~Ok(w1) THEN w1 ELSE
    Return(w1, [K_star |-> [prior |-> prior_precision_diag(w1.la),
                            sod |-> Get(w1.la.prior_factor_sod)],
                Sigma_inv |-> Get(w1.la.Sigma_inv)])])

\* FunctionalLaplace.__call__
FunctionalCall(w, pred_type, link_approx, pd) ==
    IF pred_type \notin {"gp"} THEN Raise(w, "ValueError")
    ELSE Let([w1 \in {FunctionalCheckFit(w)} |-> IF ~Ok(w1) THEN w1 ELSE
         Let([w2 \in {gp_posterior(w1)} |-> IF ~Ok(w2) THEN w2 ELSE
         IF w2.la.likelihood = "regression" THEN w2
         ELSE ClassificationPredictive(w2, link_approx, pd)])])

\* la(x, pred_type, link_approx, n_samples), dispatched on the class of la
CallOf(w, pred_type, link_approx, draws, failAt, pd) ==
    IF w.la.cls = "FunctionalLaplace"
    THEN FunctionalCall(w, pred_type, link_approx, pd)
    ELSE ParametricCall(w, pred_type, link_approx, draws, failAt, pd)

\* ParametricLaplace.predictive_samples
ParametricPredictiveSamples(w, pred_type, draws, failAt, pd) ==
    Let([w1 \in {ParametricCheckFit(w)} |-> IF ~Ok(w1) THEN w1 ELSE
    IF pred_type \notin {"glm", "nn"} THEN Raise(w1, "ValueError")
    ELSE IF pred_type = "glm"
    THEN Let([w2 \in {glm_predictive_distribution(w1)} |-> IF ~Ok(w2) THEN w2 ELSE
         Let([w3 \in {MultivariateNormal(w2, pd)} |-> IF ~Ok(w3) THEN w3 ELSE
         Return(w3, [samples |-> Get(w3.val).f])])])
    ELSE nn_predictive_samples(w1, draws, failAt)])

\* FunctionalLaplace.predictive_samples
FunctionalPredictiveSamples(w, pd) ==
    Let([w1 \in {FunctionalCheckFit(w)} |-> IF ~Ok(w1) THEN w1 ELSE
    Let([w2 \in {gp_posterior(w1)} |-> IF ~Ok(w2) THEN w2 ELSE
    Let([w3 \in {MultivariateNormal(w2, pd)} |-> IF ~Ok(w3) THEN w3 ELSE
    Return(w3, [samples |-> Get(w3.val).f])])])])

\* la.predictive_samples(...), dispatched on the class of la
PredictiveSamplesOf(w, pred_type, draws, failAt, pd) ==
    IF w.la.cls = "FunctionalLaplace" THEN FunctionalPredictiveSamples(w, pd)
    ELSE ParametricPredictiveSamples(w, pred_type, draws, failAt, pd)

(***************************************************************************)
(* Prior precision optimisation.                                           *)
(***************************************************************************)
RECURSIVE Pow(_, _)
Pow(b, e) == IF e = 0 THEN 1 ELSE b * Pow(b, e - 1)

\* torch.logspace(lo, hi, n): n powers of ten with equally spaced exponents;
\* the model takes inputs whose exponents are whole numbers
Logspace(lo, hi, n) ==
    [i \in 1..n |-> IF n = 1 THEN Pow(10, lo)
                    ELSE Pow(10, lo + ((i - 1) * (hi - lo)) \div (n - 1))]

\* np.inf as a loss
Inf == [exc |-> "none", loss |-> 1, inf |-> TRUE]
Finite(l) == [exc |-> "none", loss |-> l, inf |-> FALSE]
Failure(e) == [exc |-> e, loss |-> 0, inf |-> FALSE]

\* result a is strictly smaller than result b
Less(a, b) == ~a.inf /\ (b.inf \/ a.loss < b.loss)

\* np.argmin: the first index of a minimal entry
ArgMin(results) ==
    CHOOSE i \in 1..Len(results) :
        /\ \A j \in 1..Len(results) : ~Less(results[j], results[i])
        /\ \A j \in 1..(i - 1) : Less(results[i], results[j])

\* laplace.utils.validate followed by loss(out_dist, targets) for one
\* candidate: the predictive is called on the validation data (of a positive
\* definite output covariance); outcome is the loss computed from it, or the
\* exception that computing it raises
Validate(w, pred_type, link_approx, outcome) ==
    Let([w1 \in {CallOf([w EXCEPT !.model.training = FALSE], pred_type, link_approx,
                Draws(1), 0, TRUE)} |-> IF ~Ok(w1) THEN w1 ELSE IF outcome.exc # "none" THEN Raise(w1, outcome.exc)
                     ELSE Return(w1, outcome)])

\* the loop of BaseLaplace._gridsearch from candidate k on; results holds the
\* losses of the candidates before k
RECURSIVE GridLoop(_, _, _, _, _, _, _)
GridLoop(w, interval, outcomes, pred_type, link_approx, k, results) ==
    IF k > Len(interval) THEN Return(w, results)
    ELSE Let([w1 \in {SetPriorPrecision(w, Tensor(0, <<interval[k]>>))} |-> IF ~Ok(w1) THEN w1 ELSE
         Let([w3 \in {Validate([w1 EXCEPT !.calls = Append(@, [fn |-> "validate",
                                                      batch |-> <<>>,
                                                      N |-> interval[k]])],
                      pred_type, link_approx, outcomes[k])} |->
         IF Ok(w3)
         THEN GridLoop(w3, interval, outcomes, pred_type, link_approx, k + 1,
                       Append(results, Get(w3.val)))
         ELSE IF w3.exc = "RuntimeError"
         THEN GridLoop([w3 EXCEPT !.exc = "none"], interval, outcomes, pred_type,
                       link_approx, k + 1, Append(results, Inf))
         ELSE w3])])

\* _gridsearch returning the candidate it tried last
gridsearch_last(w, interval, outcomes, pred_type, link_approx) ==
    Let([w1 \in {GridLoop(w, interval, outcomes, pred_type, link_approx, 1, <<>>)} |-> IF ~Ok(w1) THEN w1 ELSE IF Get(w1.val) = <<>> THEN Raise(w1, "ValueError")
                     ELSE Return(w1, interval[Len(interval)])])

\* BaseLaplace._gridsearch: the candidate of minimal loss
gridsearch(w, interval, outcomes, pred_type, link_approx) ==
    Let([w1 \in {GridLoop(w, interval, outcomes, pred_type, link_approx, 1, <<>>)} |-> IF ~Ok(w1) THEN w1 ELSE IF Get(w1.val) = <<>> THEN Raise(w1, "ValueError")
                     ELSE Return(w1, interval[ArgMin(Get(w1.val))])])

\* the iterations of the 'marglik' branch without the evaluation of the
\* marginal likelihood
RECURSIVE MarglikLoop_skip(_, _, _, _)
MarglikLoop_skip(w, e, steps, k) ==
    IF k > Len(steps) THEN Return(w, e)
    ELSE MarglikLoop_skip(w, e + steps[k], steps, k + 1)

\* the n_steps iterations of the 'marglik' branch from step k on; e is
\* log(prior_precision) in base 2 and steps[k] what the optimiser adds to it
RECURSIVE MarglikLoop(_, _, _, _)
MarglikLoop(w, e, steps, k) ==
    IF k > Len(steps) THEN Return(w, e)
    ELSE Let([w1 \in {LogMarginalLikelihood(w, Some(Tensor(1, <<Pow(2, e)>>)), None, 0)} |-> IF ~Ok(w1) THEN w1 ELSE
         MarglikLoop([w1 EXCEPT !.calls = Append(@, [fn |-> "log_marginal_likelihood",
                                                     prior_precision |-> w1.la._prior_precision])],
                     e + steps[k], steps, k + 1)])

\* log2 of a power of two
RECURSIVE Log2(_)
Log2(x) == IF x <= 1 THEN 0 ELSE 1 + Log2(x \div 2)

\* tensor.log() and tensor.exp() in base 2: the logarithm of zero is -inf,
\* an exponent below every exponent of the model, and its exponential is zero
NegInf == -1000
LogOf(x) == IF x = 0 THEN NegInf ELSE Log2(x)
ExpOf(e) == IF e <= NegInf THEN 0 ELSE Pow(2, e)

\* BaseLaplace.optimize_prior_precision_base
optimize_prior_precision_base(w, pred_type, method, steps, init_prior_prec, val_loader, grid_size, outcomes, link_approx) ==
    IF method = "marglik"
    THEN Let([w1 \in {SetPriorPrecision(w, Scalar(init_prior_prec))} |-> IF ~Ok(w1) THEN w1 ELSE
         Let([w2 \in {MarglikLoop(w1, LogOf(w1.la._prior_precision[1]), steps, 1)} |-> IF ~Ok(w2) THEN w2 ELSE
         [SetPriorPrecision(w2, Tensor(1, <<ExpOf(Get(w2.val))>>))
             EXCEPT !.val = None]])])
    ELSE IF method = "CV"
    THEN IF val_loader = None THEN Raise(w, "ValueError")
         ELSE Let([w1 \in {gridsearch(w, Logspace(0, grid_size - 1, grid_size),
                              outcomes, pred_type, link_approx)} |-> IF ~Ok(w1) THEN w1 ELSE
              [SetPriorPrecision(w1, Tensor(0, <<Get(w1.val)>>))
                  EXCEPT !.val = None]])
    ELSE Raise(w, "ValueError")

\* ParametricLaplace.optimize_prior_precision,
\* FunctionalLaplace.optimize_prior_precision
OptimizePriorPrecision(w, pred_type, method, steps, init_prior_prec, val_loader, grid_size, outcomes, link_approx) ==
    IF (w.la.cls = "FunctionalLaplace" /\ pred_type # "gp")
       \/ (w.la.cls # "FunctionalLaplace" /\ pred_type \notin {"glm", "nn"})
    THEN Raise(w, "AssertionError")
    ELSE optimize_prior_precision_base(w, pred_type, method, steps, init_prior_prec,
                                       val_loader, grid_size, outcomes, link_approx)

\* the values a caller hands to the prior precision setter: real scalars, a
\* 0-dimensional tensor, 1-dimensional tensors of every length up to
\* n_params + 1, a 2-dimensional tensor and a value that is no number
PriorInputs(l) ==
    {Scalar(2), Tensor(0, <<2>>)}
    \cup {Tensor(1, [i \in 1..n |-> i]) : n \in 1..(n_params(l) + 1)}
    \cup {Tensor(2, <<1, 1, 1, 1>>), NonNumeric}

\* the values a caller hands to the noise setter
SigmaInputs ==
    {Scalar(v) : v \in SigmaVals}
    \cup {Tensor(0, <<2>>), Tensor(1, <<2>>)}
    \cup {Tensor(1, <<1, 1>>), Tensor(2, <<1, 1, 1, 1>>), NonNumeric}

ConstructorArgs ==
    [cls : Classes, likelihood : Likelihoods, layers : Architectures,
     backend : {"BackPackGGN", "BackPackInterface"},
     sigma_noise : {Scalar(1)},
     prior_precision : {Scalar(1)},
     temperature : TemperatureVals,
     damping : {FALSE},
     M : {None}, diagonal_kernel : {FALSE}, diagonal_L : {TRUE}]

\* the backend classes handed to the constructor of FunctionalLaplace
Backends == {"BackPackGGN", "AsdlGGN", "BackPackInterface"}

\* the arguments of the constructor calls made after the first: a
\* functional instance, a backend class of backends, every size M of the
\* inducing set and both kernel structures
NewArgs(backends) ==
    [cls : {"FunctionalLaplace"}, likelihood : Likelihoods,
     layers : Architectures,
     backend : backends,
     sigma_noise : {Scalar(1)},
     prior_precision : {Scalar(1)},
     temperature : TemperatureVals,
     damping : {FALSE},
     M : {None} \cup {Some(m) : m \in 1..MaxInducing},
     diagonal_kernel : BOOLEAN, diagonal_L : BOOLEAN]

\* the constructor calls on models of every architecture of up to MaxLayers
\* layers of up to MaxWidth parameters
ArchitectureArgs ==
    [cls : Classes, likelihood : {"regression"},
     layers : SeqsOf(1..MaxWidth, 1, MaxLayers),
     backend : {"BackPackGGN", "BackPackInterface"},
     sigma_noise : {Scalar(1)},
     prior_precision : {Scalar(1)},
     temperature : TemperatureVals,
     damping : {FALSE},
     M : {None}, diagonal_kernel : {FALSE}, diagonal_L : {TRUE}]

\* modes: the passes fit has run the module in, each with the training flag
\* the module had then
NewModel(p, c) == [params |-> p, training |-> TRUE, n_outputs |-> c, modes |-> {}]

(***************************************************************************)
(* The regression predictives of FullLaplace and FunctionalLaplace in      *)
(* exact arithmetic: numbers are reduced fractions <<n, d>>, d > 0,        *)
(* matrices are sequences of rows, the Jacobians of a batch are a sequence *)
(* over its points of matrices of n_outputs rows and n_params columns.     *)
(***************************************************************************)
Abs(n) == IF n < 0 THEN -n ELSE n
RNorm(n, d) == LET g == GCD(Abs(n), d) IN <<n \div g, d \div g>>
RInt(n) == <<n, 1>>
RAdd(a, b) == RNorm(a[1] * b[2] + b[1] * a[2], a[2] * b[2])
RSub(a, b) == RNorm(a[1] * b[2] - b[1] * a[2], a[2] * b[2])
RMul(a, b) == RNorm(a[1] * b[1], a[2] * b[2])
RDiv(a, b) == IF b[1] < 0 THEN RNorm(-(a[1] * b[2]), a[2] * (-b[1])) ELSE RNorm(a[1] * b[2], a[2] * b[1])
RLeq(a, b) == a[1] * b[2] <= b[1] * a[2]

RECURSIVE RSum(_)
RSum(s) == IF s = <<>> THEN <<0, 1>> ELSE RAdd(s[1], RSum(Tail(s)))

RECURSIVE Concat(_)
Concat(ss) == IF ss = <<>> THEN <<>> ELSE ss[1] \o Concat(Tail(ss))

Dot(u, v) == RSum([k \in 1..Len(u) |-> RMul(u[k], v[k])])
Transpose(A) == Eager([j \in 1..Len(A[1]) |-> [i \in 1..Len(A) |-> A[i][j]]])
MatMul(A, B) == Eager([i \in 1..Len(A) |-> [j \in 1..Len(B[1]) |-> Dot(A[i], [k \in 1..Len(B) |-> B[k][j]])]])
MatAdd(A, B) == Eager([i \in 1..Len(A) |-> [j \in 1..Len(A[i]) |-> RAdd(A[i][j], B[i][j])]])
MatSub(A, B) == Eager([i \in 1..Len(A) |-> [j \in 1..Len(A[i]) |-> RSub(A[i][j], B[i][j])]])
Diag(v) == Eager([i \in 1..Len(v) |-> [j \in 1..Len(v) |-> IF i = j THEN v[i] ELSE <<0, 1>>]])
RMat(A) == Eager([i \in 1..Len(A) |-> [j \in 1..Len(A[i]) |-> RInt(A[i][j])]])

\* Gauss-Jordan elimination of the n x 2n matrix A from column k on (the
\* matrices inverted here are positive definite: no pivot is zero)
RECURSIVE GaussJordan(_, _)
GaussJordan(A, k) ==
    IF k > Len(A) THEN A
    ELSE GaussJordan(Let([row \in {Eager([j \in 1..Len(A[k]) |-> RDiv(A[k][j], A[k][k])])} |->
             Eager([i \in 1..Len(A) |-> IF i = k THEN row
                 ELSE [j \in 1..Len(A[i]) |-> RSub(A[i][j], RMul(A[i][k], row[j]))]])]),
         k + 1)

\* the inverse of a positive definite matrix
Inverse(A) ==
    Let([red \in {GaussJordan(Eager([i \in 1..Len(A) |-> [j \in 1..(2 * Len(A)) |->
                      IF j <= Len(A) THEN A[i][j]
                      ELSE IF j - Len(A) = i THEN <<1, 1>> ELSE <<0, 1>>]]), 1)} |->
        Eager([i \in 1..Len(A) |-> [j \in 1..Len(A) |-> red[i][Len(A) + j]]])])

\* backend.jacobians(model, X) for the batch X of inputs: the Jacobians and
\* the outputs of the model at each input
Jacobians(m, X) == [Js |-> [k \in 1..Len(X) |-> m.jac[X[k]]], f |-> [k \in 1..Len(X) |-> m.out[X[k]]]]

\* Js.reshape(-1, P): the rows of the Jacobians of a batch, point by point
FlatRows(Js) == RMat(Concat(Js))

\* _get_full_ggn for regression: einsum('mkp,mkq->pq', Js, Js)
FullGGN(Js) == MatMul(Transpose(FlatRows(Js)), FlatRows(Js))

\* ParametricLaplace.fit of FullLaplace: H is the sum of the curvatures of
\* the batches
RECURSIVE NumFullFitLoop(_, _, _, _)
NumFullFitLoop(l, m, batches, k) ==
    IF k > Len(batches) THEN l
    ELSE NumFullFitLoop([l EXCEPT !.H = Some(MatAdd(Get(@), FullGGN(Jacobians(m, batches[k]).Js)))],
                        m, batches, k + 1)

NumFullFit(l, m, loader) ==
    NumFullFitLoop([l EXCEPT !.H = Some([i \in 1..m.n_params |-> [j \in 1..m.n_params |-> <<0, 1>>]]),
                             !.n_data = Some(Len(loader.dataset))],
                   m, Batches(loader), 1)

\* prior_precision_diag of a scalar prior precision
NumPriorDiag(l, m) == [p \in 1..m.n_params |-> RInt(l.prior_precision)]

\* FullLaplace.posterior_precision: _H_factor * H + diag(prior_precision_diag)
NumPosteriorPrecision(l, m) ==
    MatAdd([i \in 1..m.n_params |-> [j \in 1..m.n_params |-> RMul(H_factor(l), Get(l.H)[i][j])]],
           Diag(NumPriorDiag(l, m)))

\* FullLaplace.posterior_covariance: scale @ scale.T for the scale
\* invsqrt_precision(posterior_precision), the inverse of the precision
NumPosteriorCovariance(l, m) == Inverse(NumPosteriorPrecision(l, m))

\* FullLaplace._glm_predictive_distribution at one input x:
\* einsum('ncp,pq,nkq->nck', Js, posterior_covariance, Js)
NumGLMPredictive(l, m, x) ==
    [f_mu |-> Jacobians(m, <<x>>).f[1],
     f_var |-> MatMul(MatMul(FlatRows(Jacobians(m, <<x>>).Js), NumPosteriorCovariance(l, m)),
                      Transpose(FlatRows(Jacobians(m, <<x>>).Js)))]

\* prior_factor_sod / prior_precision_diag
NumKernelPrior(l, m) == [p \in 1..m.n_params |-> RDiv(Get(l.prior_factor_sod), RInt(l.prior_precision))]

\* the rows of Js of output channel c, one per point
ChannelRows(Js, c) == RMat([k \in 1..Len(Js) |-> Js[k][c]])

\* the number kernel of two matrices of rows: A diag(prior) B^T
RowKernel(A, B, prior) == MatMul(A, Transpose([i \in 1..Len(B) |-> [p \in 1..Len(prior) |-> RMul(B[i][p], prior[p])]]))

\* a matrix as the block K_batch of _store_K_batch
AsBlock(A) == Eager([xy \in (0..(Len(A) - 1)) \X (0..(Len(A[1]) - 1)) |-> A[xy[1] + 1][xy[2] + 1]])

\* the written matrix K as a matrix of n rows
AsMatrix(K, n) == Eager([i \in 1..n |-> [j \in 1..n |-> Get(K.entries[<<i - 1, j - 1>>])]])

\* FunctionalLaplace._kernel_batch of the Jacobians of two batches: with the
\* diagonal kernel einsum('bcp,ecp->bec', ...), one matrix per channel,
\* otherwise einsum('ap,p,bp->ab', ...) of the reshaped Jacobians
NumKernelBatch(l, m, Js, Js2) ==
    IF l.diagonal_kernel
    THEN [c \in 1..m.n_outputs |-> RowKernel(ChannelRows(Js, c), ChannelRows(Js2, c), NumKernelPrior(l, m))]
    ELSE <<RowKernel(FlatRows(Js), FlatRows(Js2), NumKernelPrior(l, m))>>

\* the loop over batch_2 of FunctionalLaplace.fit for row i, from batch j on
RECURSIVE NumKernelLoop(_, _, _, _, _)
NumKernelLoop(l, m, batches, i, j) ==
    IF j >= Len(batches) THEN l
    ELSE IF j < i THEN NumKernelLoop(l, m, batches, i, j + 1)
    ELSE NumKernelLoop(
             [l EXCEPT !.K_MM = Eager([c \in DOMAIN @ |->
                 StoreKBatch(@[c],
                             AsBlock(NumKernelBatch(l, m, Jacobians(m, batches[i + 1]).Js,
                                                    Jacobians(m, batches[j + 1]).Js)[c]),
                             i, j, l.batch_size * RowsPerPoint(l), l.M * RowsPerPoint(l))])],
             m, batches, i, j + 1)

\* gp_quantities for regression: the curvature of the likelihood of a point
\* is _H_factor times the identity; its diagonal, output by output
GPLambdas(l, m, batch) == [k \in 1..(Len(batch) * m.n_outputs) |-> H_factor(l)]

\* the loop over the batches of FunctionalLaplace.fit, from batch k on
RECURSIVE NumGPFitLoop(_, _, _, _)
NumGPFitLoop(l, m, batches, k) ==
    IF k > Len(batches) THEN l
    ELSE NumGPFitLoop(NumKernelLoop([l EXCEPT !.lambdas = @ \o GPLambdas(l, m, batches[k])],
                                    m, batches, k - 1, 0),
                      m, batches, k + 1)

\* FunctionalLaplace._build_L_inv: the inverse of the diagonal of the
\* lambdas, for channel c of the diagonal kernel the entries c::n_outputs
BuildLInv(l, m, c) ==
    IF l.diagonal_kernel
    THEN Diag([k \in 1..l.M |-> RDiv(<<1, 1>>, l.lambdas[(k - 1) * m.n_outputs + c])])
    ELSE Diag([k \in 1..Len(l.lambdas) |-> RDiv(<<1, 1>>, l.lambdas[k])])

\* FunctionalLaplace._build_Sigma_inv: the matrices K_MM + L_inv whose
\* Cholesky factors are stored
BuildSigma(l, m) ==
    [c \in DOMAIN l.K_MM |-> MatAdd(AsMatrix(l.K_MM[c], l.M * RowsPerPoint(l)), BuildLInv(l, m, c))]

\* FunctionalLaplace.fit for regression, M the size of the data set
NumGPFit(l, m, loader) ==
    Let([l1 \in {[l EXCEPT !.n_outputs = Some(m.n_outputs),
                           !.batch_size = loader.batch_size,
                           !.n_data = Some(Len(loader.dataset)),
                           !.M = Len(loader.dataset),
                           !.train_loader = Some(SoDLoader(loader, Len(loader.dataset))),
                           !.prior_factor_sod = Some(Rat(Len(loader.dataset), Len(loader.dataset))),
                           !.lambdas = <<>>]} |->
    Let([l2 \in {NumGPFitLoop([l1 EXCEPT !.K_MM =
                                  [c \in 1..(IF l.diagonal_kernel THEN m.n_outputs ELSE 1) |->
                                      [ZeroK EXCEPT !.entries = ZeroEntries(l1.M * RowsPerPoint(l1))]]],
                              m, Batches(Get(l1.train_loader)), 1)} |->
        [l2 EXCEPT !.Sigma = Some(BuildSigma(l2, m))]])])

\* FunctionalLaplace._kernel_star at one test input: with the diagonal
\* kernel einsum('bcp,bcp->bc', ...), otherwise einsum('bcp,p,bep->bce', ...)
NumKernelStar(l, m, Js) ==
    IF l.diagonal_kernel
    THEN [c \in 1..m.n_outputs |-> RowKernel(ChannelRows(Js, c), ChannelRows(Js, c), NumKernelPrior(l, m))[1][1]]
    ELSE RowKernel(FlatRows(Js), FlatRows(Js), NumKernelPrior(l, m))

\* FunctionalLaplace._kernel_batch_star for one test input and a batch:
\* with the diagonal kernel einsum('bcp,ecp->bec', ...), entry [e][c];
\* otherwise einsum('bcp,p,dep->bdce', ...), entry [d][c][e] for output c of
\* the test input and output e of the point d of the batch
NumKernelBatchStar(l, m, Js, Js2) ==
    IF l.diagonal_kernel
    THEN [e \in 1..Len(Js2) |-> [c \in 1..m.n_outputs |->
             RowKernel(ChannelRows(Js, c), ChannelRows(Js2, c), NumKernelPrior(l, m))[1][e]]]
    ELSE [d \in 1..Len(Js2) |-> RowKernel(FlatRows(Js), RMat(Js2[d]), NumKernelPrior(l, m))]

\* FunctionalLaplace._build_K_star_M at one test input, K_M_star being the
\* concatenation of the batch kernels over the points: v solves
\* Sigma_inv v = K_M_star for the Cholesky factor of Sigma, and the result
\* is v^T v = K_M_star^T Sigma^{-1} K_M_star. With the diagonal kernel one
\* number per channel; otherwise K_M_star is reshaped from (M, C, C) to
\* (M * C, C), which keeps the order of the entries
BuildKStarM(l, m, K_M_star) ==
    IF l.diagonal_kernel
    THEN [c \in 1..m.n_outputs |->
             MatMul(MatMul(<<[d \in 1..Len(K_M_star) |-> K_M_star[d][c]]>>, Inverse(Get(l.Sigma)[c])),
                    [d \in 1..Len(K_M_star) |-> <<K_M_star[d][c]>>])[1][1]]
    ELSE MatMul(MatMul(Transpose(Concat(K_M_star)), Inverse(Get(l.Sigma)[1])), Concat(K_M_star))

\* FunctionalLaplace._gp_posterior_variance and gp_posterior at one test
\* input x; with the diagonal kernel f_var is torch.diag_embed of the
\* variances of the channels
NumGPPosterior(l, m, x) ==
    Let([Js \in {Jacobians(m, <<x>>).Js} |->
    Let([K_M_star \in {Concat([k \in 1..Len(Batches(Get(l.train_loader))) |->
                          NumKernelBatchStar(l, m, Js, Jacobians(m, Batches(Get(l.train_loader))[k]).Js)])} |->
        [f_mu |-> Jacobians(m, <<x>>).f[1],
         f_var |-> IF l.diagonal_kernel
                   THEN Diag([c \in 1..m.n_outputs |->
                            RSub(NumKernelStar(l, m, Js)[c], BuildKStarM(l, m, K_M_star)[c])])
                   ELSE MatSub(NumKernelStar(l, m, Js), BuildKStarM(l, m, K_M_star))]])])

(***************************************************************************)
(* Actions.                                                                *)
(***************************************************************************)
\* the state after handler world w, reached by call op with arguments a
Apply(w, op, a) ==
    /\ la' = w.la
    /\ model' = w.model
    /\ ret' = [op |-> op, args |-> a, exc |-> w.exc, val |-> w.val, calls |-> w.calls]
    /\ fit_called' = (fit_called \/ op = "fit")

Init ==
    \E args \in ConstructorArgs, p \in MapParamVals, c \in OutputWidths :
        LET w == Construct(args, NewModel(p, c)) IN
        /\ Ok(w)
        /\ la = w.la
        /\ model = w.model
        /\ ret = [op |-> "__init__", args |-> <<>>, exc |-> "none", val |-> None,
                  calls |-> <<>>]
        /\ fit_called = FALSE

\* la = Cls(model, likelihood, ...): when the constructor returns, la is the
\* new instance, on which fit was not called; when it raises, la stays the
\* instance it was
NewFrom(argset) ==
    \E args \in argset :
        LET w == Construct(args, model) IN
        /\ la' = IF Ok(w) THEN w.la ELSE la
        /\ model' = model
        /\ ret' = [op |-> "__init__", args |-> <<args>>, exc |-> w.exc, val |-> None,
                   calls |-> <<>>]
        /\ fit_called' = (fit_called /\ ~Ok(w))

NewWith(backends) == NewFrom(NewArgs(backends))

New == NewWith(Backends)

\* the constructor calls that differ in likelihood and in the two flags only
NewFlags ==
    NewFrom({a \in NewArgs({"BackPackInterface"}) :
                a.M = None /\ a.layers = la.layers /\ a.temperature = la.temperature})

\* the constructor calls with the default backend of FunctionalLaplace
NewFunctional == NewWith({"BackPackInterface"})

\* the state after the constructor returned for a model of any architecture
InitArchitecture ==
    \E args \in ArchitectureArgs, p \in MapParamVals, c \in OutputWidths :
        LET w == Construct(args, NewModel(p, c)) IN
        /\ Ok(w)
        /\ la = w.la
        /\ model = w.model
        /\ ret = [op |-> "__init__", args |-> <<>>, exc |-> "none", val |-> None,
                  calls |-> <<>>]
        /\ fit_called = FALSE

\* a read of la.prior_precision_diag
ReadPriorDiag ==
    Apply(PriorPrecisionDiag(World(la, model)), "prior_precision_diag", <<>>)

\* la.prior_precision = pp
AssignPriorPrecision ==
    \E pp \in PriorInputs(la) :
        Apply(SetPriorPrecision(World(la, model), pp), "prior_precision", <<pp>>)

\* la.sigma_noise = sn
AssignSigmaNoise ==
    \E sn \in SigmaInputs :
        Apply(SetSigmaNoise(World(la, model), sn), "sigma_noise", <<sn>>)

\* la.temperature = t: temperature is a plain attribute, set by
\* BaseLaplace.__init__ and read by _H_factor; no setter runs
AssignTemperature ==
    \E t \in {1, 2} :
        Apply([World(la, model) EXCEPT !.la.temperature = t], "temperature", <<t>>)

\* the wrapped model's parameters changed from outside (further training,
\* load_state_dict): map_estimate is the copy BaseLaplace.__init__ took
UpdateParams ==
    \E p \in {0, 7} :
        Apply([World(la, model) EXCEPT !.model.params = p], "load_state_dict", <<p>>)

\* la.fit(train_loader); the backend raises at batch failAt (0: never)
Fit ==
    \E loader \in Loaders, failAt \in 0..MaxData :
        /\ failAt <= Len(Batches(loader))
        /\ la.loss + SumSeq(loader.dataset) <= MaxLoss
        /\ Apply(FitOf(World(la, model), loader, failAt), "fit", <<failAt, loader>>)

\* la.fit(train_loader) for the loaders of every batch size.  The loss of a
\* FunctionalLaplace grows with every fit and is capped
FitBatched ==
    \E loader \in BatchedLoaders, failAt \in 0..MaxData :
        /\ failAt <= Len(Batches(loader))
        /\ la.cls = "FunctionalLaplace" => la.loss + SumSeq(loader.dataset) <= MaxLoss
        /\ Apply(FitOf(World(la, model), loader, failAt), "fit", <<failAt, loader>>)

\* la.fit(train_loader) for the loaders a kernel is built from, with a
\* backend that raises on no batch
FitKernel ==
    \E loader \in KernelLoaders :
        Apply(FitOf(World(la, model), loader, 0), "fit", <<0, loader>>)

\* la.fit(train_loader) with a backend that raises on no batch
FitData ==
    \E loader \in Loaders :
        /\ la.loss + SumSeq(loader.dataset) <= MaxLoss
        /\ Apply(FitOf(World(la, model), loader, 0), "fit", <<0, loader>>)

\* a read of one of the properties, or a call of sample / functional_variance
Queries == {"posterior_precision", "log_det_posterior_precision", "log_det_ratio",
            "posterior_scale", "sample", "functional_variance", "log_likelihood"}

QueryOf(w, q) ==
    IF q = "posterior_precision" THEN PosteriorPrecision(w)
    ELSE IF q = "log_det_posterior_precision" THEN LogDetPosteriorPrecision(w)
    ELSE IF q = "log_det_ratio" THEN LogDetRatio(w)
    ELSE IF q = "posterior_scale" THEN PosteriorScale(w)
    ELSE IF q = "sample" THEN SampleOf(w, Draws(1))
    ELSE IF q = "functional_variance" THEN FunctionalVariance(w)
    ELSE LogLikelihood(w)

Query ==
    \E q \in Queries : Apply(QueryOf(World(la, model), q), q, <<>>)

\* la.log_marginal_likelihood(prior_precision=pp, sigma_noise=sn)
MarginalLikelihood ==
    \E pp \in {None, Some(Scalar(2)), Some(Tensor(1, [i \in 1..(n_params(la) + 1) |-> i]))},
       sn \in {None, Some(Scalar(1)), Some(Scalar(2))} :
        /\ la.cls = "FunctionalLaplace" => la.loss + la.loss <= MaxLoss
        /\ Apply(LogMarginalLikelihood(World(la, model), pp, sn, 0),
                 "log_marginal_likelihood", <<pp, sn>>)

\* la(x, pred_type, link_approx, n_samples) and la.predictive(...)
Predict ==
    \E pt \in PredTypes, link \in LinkApprox, n \in 0..MaxSamples, failAt \in 0..MaxSamples :
        /\ failAt <= n
        /\ pt # "nn" => n = 0
        /\ Apply(CallOf(World(la, model), pt, link, Draws(n), failAt, TRUE),
                 "__call__", <<pt, link, n, failAt>>)

\* la.predictive_samples(x, pred_type, n_samples)
PredictSamples ==
    \E pt \in PredTypes, n \in 0..MaxSamples, failAt \in 0..MaxSamples :
        /\ failAt <= n
        /\ pt # "nn" => n = 0
        /\ Apply(PredictiveSamplesOf(World(la, model), pt, Draws(n), failAt, TRUE),
                 "predictive_samples", <<pt, n, failAt>>)

\* la(x, pred_type, link_approx) for the GLM and GP predictives on inputs
\* whose output covariance is positive definite (pd) or is not
PredictCov ==
    \E pt \in {"glm", "gp"}, link \in {"mc", "probit"}, pd \in BOOLEAN :
        Apply(CallOf(World(la, model), pt, link, Draws(0), 0, pd),
              "__call__", <<pt, link, 0, 0, pd>>)

\* la.predictive_samples(x, pred_type) for the GLM and GP predictives on
\* inputs whose output covariance is positive definite (pd) or is not
PredictSamplesCov ==
    \E pt \in {"glm", "gp"}, pd \in BOOLEAN :
        Apply(PredictiveSamplesOf(World(la, model), pt, Draws(0), 0, pd),
              "predictive_samples", <<pt, 0, 0, pd>>)

\* the outcomes of evaluating one candidate of the grid: a validation loss,
\* a RuntimeError (a numerical failure) or an exception of another class
Outcomes == {Finite(l) : l \in LossVals} \cup {Failure("RuntimeError"), Failure("ValueError")}

ValLoaders == {None, Some(Loader(<<1>>, 1))}

\* la.optimize_prior_precision(method='CV', val_loader=..., grid_size=n)
\* for the grid sizes up to maxGrid
GridSearch(maxGrid) ==
    \E pt \in {"glm", "gp"}, vl \in ValLoaders, n \in 0..maxGrid :
        \E outcomes \in [1..n -> Outcomes] :
            /\ vl = None => n = 0
            /\ (pt = "gp") # (la.cls = "FunctionalLaplace") => n = 0
            /\ Apply(OptimizePriorPrecision(World(la, model), pt, "CV", <<>>, 1, vl, n,
                                            outcomes, "probit"),
                     "optimize_prior_precision", <<"CV", pt, vl, n, outcomes>>)

OptimizeCV == GridSearch(MaxGrid)

\* the grid searches interleaved with reads of the cached posterior scale
OptimizeCVShort == GridSearch(MaxCacheGrid)

\* la.optimize_prior_precision(method=..., n_steps=Len(steps),
\* init_prior_prec=init) for the method 'marglik' and for an unknown method
OptimizeMarglikFrom(inits) ==
    \E method \in {"marglik", "map"}, init \in inits, steps \in SeqsOf({-1, 0, 1}, 0, MaxSteps) :
        /\ \A k \in 1..Len(steps) : Log2(init) + SumSeq(SubSeq(steps, 1, k)) >= 0
        /\ init = 0 => steps = <<>>
        /\ method # "marglik" => steps = <<>> /\ init = 1
        /\ la.cls = "FunctionalLaplace" => la.loss * (Len(steps) + 1) <= MaxLoss
        /\ Apply(OptimizePriorPrecision(World(la, model),
                                        IF la.cls = "FunctionalLaplace" THEN "gp" ELSE "glm",
                                        method, steps, init, None, 0, <<>>, "probit"),
                 "optimize_prior_precision", <<method, init, steps>>)

OptimizeMarglik == OptimizeMarglikFrom({1, 2})

\* the same with every initial prior precision a caller can pass, zero
\* included (the optimiser's step from log(0) is left out)
OptimizeMarglikAny == OptimizeMarglikFrom({0, 1, 2})

(***************************************************************************)
(* Properties.                                                             *)
(***************************************************************************)
\* a fit of la ran to completion
Fitted(l) ==
    IF l.cls = "FunctionalLaplace"
    THEN l.Sigma_inv # None /\ Get(l.Sigma_inv).factored
    ELSE l.H # None /\ l.n_data # None

\* C1: after a sampling prediction (pred_type 'nn', by __call__ or by
\* predictive_samples) of a parametric instance the model's parameters equal
\* map_estimate, whether the call returned or raised
C1_ParamsRestored ==
    (/\ ret.op \in {"__call__", "predictive_samples"}
     /\ la.cls \in Parametric
     /\ Fitted(la)
     /\ ret.args[1] = "nn")
    => model.params = la.map_estimate

\* C2: fit on a Full/Kron/Diag instance that was fitted before raises
\* ValueError, leaves every attribute (H, loss, n_data, n_outputs, ...) and
\* the model as they were and calls the curvature backend not once
C2_RefitRejected ==
    [][(/\ la.cls \in Parametric
        /\ la.H # None
        /\ ret'.op = "fit")
       => (/\ ret'.exc = "ValueError"
           /\ la' = la
           /\ model' = model
           /\ ret'.calls = <<>>)]_vars

\* a completed fit followed by a rejected one
C2_Witness ==
    /\ la.cls \in Parametric
    /\ Fitted(la)
    /\ la.loss > 0
    /\ ret.op = "fit"
    /\ ret.exc = "ValueError"

\* C3: fit on a fitted FunctionalLaplace raises and leaves loss, K_MM,
\* Sigma_inv and mu as the first fit built them
C3_SecondFitRejected ==
    [][(/\ la.cls = "FunctionalLaplace"
        /\ Fitted(la)
        /\ ret'.op = "fit")
       => (/\ ret'.exc # "none"
           /\ la'.loss = la.loss
           /\ la'.K_MM = la.K_MM
           /\ la'.Sigma_inv = la.Sigma_inv
           /\ la'.mu = la.mu)]_vars

\* the calls C4 is about, with arguments the class accepts
C4_Call(r, l) ==
    /\ r.op \in Queries \cup {"log_marginal_likelihood", "__call__",
                              "predictive_samples"}
    /\ (r.op = "__call__" /\ l.cls = "FunctionalLaplace") => r.args[1] = "gp"

C5_ScaleOf(l) ==
    LET d == prior_precision_diag(l) IN
    InvSqrt([i \in 1..Len(d) |-> Precision(H_factor(l), Get(l.H).val, d[i])])

\* C5: the posterior scale of a FullLaplace is cached: an access returns the
\* scale of the current prior precision and noise and keeps it, and leaves
\* the object alone when the cache is filled; every assignment of
\* prior_precision or sigma_noise (the setters, the arguments of
\* log_marginal_likelihood, optimize_prior_precision by marglik or by grid
\* search) leaves the cache empty
C5_CacheInvalidated ==
    [][/\ ret'.op \in {"prior_precision", "sigma_noise"}
          => la'._posterior_scale = None
       /\ (/\ ret'.op = "log_marginal_likelihood"
           /\ la.H # None
           /\ \/ ret'.args[1] # None
              \/ ret'.args[2] # None /\ la.likelihood = "regression")
          => la'._posterior_scale = None
       /\ (ret'.op = "optimize_prior_precision" /\ ret'.exc = "none")
          => la'._posterior_scale = None
       /\ (ret'.op = "posterior_scale" /\ ret'.exc = "none")
          => (/\ ret'.val = Some(C5_ScaleOf(la))
              /\ la'._posterior_scale = ret'.val
              /\ la._posterior_scale # None => la' = la)]_vars

\* the scale read after both hyperparameters were assigned
C5_Witness ==
    /\ la.cls = "FullLaplace"
    /\ ret.op = "posterior_scale"
    /\ ret.exc = "none"
    /\ la._prior_precision # <<1>>
    /\ la._sigma_noise = 2
    /\ la._posterior_scale = Some(C5_ScaleOf(la))

\* C6: la(x, pred_type='nn', link_approx=..., n_samples > 0) on a fitted
\* parametric classification instance whose model raises on no forward pass
\* returns
\* for link_approx 'mc' and raises ValueError for every other link
C6_LinkChecked ==
    (/\ ret.op = "__call__"
     /\ la.cls \in Parametric
     /\ la.likelihood = "classification"
     /\ Fitted(la)
     /\ ret.args[1] = "nn"
     /\ ret.args[3] > 0
     /\ ret.args[4] = 0)
    => IF ret.args[2] = "mc" THEN ret.exc = "none" ELSE ret.exc = "ValueError"

\* C7: the noise of a classification instance is 1 in every state
C7_NoiseFixed == la.likelihood = "classification" => la._sigma_noise = 1

\* a value the prior precision setter must refuse
C8_Invalid(pp, l) ==
    \/ pp.kind = "other"
    \/ pp.kind = "tensor" /\ pp.ndim > 1
    \/ /\ pp.kind = "tensor"
       /\ pp.ndim = 1
       /\ Len(pp.data) \notin {1, n_layers(l), n_params(l)}

\* C8: the prior precision stored by a Full, Diag or Functional instance has
\* 1, n_layers or n_params elements in every state; an assignment of a
\* 1-dimensional tensor of another length, of a tensor of more dimensions
\* or of a value that is no number raises ValueError and leaves the stored
\* value, every other assignment stores its value
C8_PriorShape ==
    /\ [](la.cls # "KronLaplace"
           => Len(la._prior_precision) \in {1, n_layers(la), n_params(la)})
    /\ [][(ret'.op = "prior_precision" /\ la.cls # "KronLaplace")
           => IF C8_Invalid(ret'.args[1], la)
              THEN /\ ret'.exc = "ValueError"
                   /\ la'._prior_precision = la._prior_precision
              ELSE /\ ret'.exc = "none"
                   /\ la'._prior_precision = ret'.args[1].data]_vars

\* a tensor of n_layers + 1 elements refused after a per-parameter prior
\* precision was stored
C8_Witness ==
    /\ la.cls # "KronLaplace"
    /\ ret.op = "prior_precision"
    /\ ret.exc = "ValueError"
    /\ ret.args[1].ndim = 1
    /\ Len(ret.args[1].data) = n_layers(la) + 1
    /\ Len(la._prior_precision) = n_params(la)

\* C9: a grid search over a non-empty grid on a fitted instance returns
\* whatever exception the evaluation of a candidate raises, and evaluates
\* every candidate
C9_FailuresAbsorbed ==
    (/\ ret.op = "optimize_prior_precision"
     /\ ret.args[1] = "CV"
     /\ ret.args[4] > 0
     /\ Fitted(la))
    => (ret.exc = "none" /\ Len(ret.calls) = ret.args[4])

\* the losses the grid search records for the outcomes of its candidates
C10_Results(outcomes) ==
    [k \in 1..Len(outcomes) |->
        IF outcomes[k].exc = "none" THEN outcomes[k] ELSE Inf]

\* C10: when the grid search returns, prior_precision is the candidate of
\* minimal recorded loss, the earliest one among equals, a failed candidate
\* counting as infinite; and the candidates were evaluated once each, in the
\* order of the grid
C10_BestCandidate ==
    (/\ ret.op = "optimize_prior_precision"
     /\ ret.args[1] = "CV"
     /\ ret.exc = "none")
    => LET n == ret.args[4]
           grid == Logspace(0, n - 1, n)
           res == C10_Results(ret.args[5])
       IN /\ \E i \in 1..n :
               /\ la._prior_precision = <<grid[i]>>
               /\ \A j \in 1..n : ~Less(res[j], res[i])
               /\ \A j \in 1..(i - 1) : Less(res[i], res[j])
          /\ ret.calls = [k \in 1..n |-> [fn |-> "validate", batch |-> <<>>,
                                           N |-> grid[k]]]

\* a search of the largest grid whose last candidate failed and whose first
\* candidate won
C10_Witness ==
    /\ ret.op = "optimize_prior_precision"
    /\ ret.args[1] = "CV"
    /\ ret.exc = "none"
    /\ ret.args[4] = MaxGrid
    /\ ret.args[5][MaxGrid] = Failure("RuntimeError")
    /\ ret.args[5][1] = Finite(1)
    /\ la._prior_precision = <<1>>

\* C11: in every state in which _check_fit of a KronLaplace does not raise,
\* H is the decomposed representation, not the accumulated Kronecker factors
C11_DecomposedBeforeQuery ==
    (la.cls = "KronLaplace" /\ Ok(ParametricCheckFit(World(la, model))))
    => Get(la.H).rep = "kron_decomposed"

\* C12: a fit of a Full, Kron or Diag instance that returns has called the
\* backend method of the class once per batch of the loader, in the order of
\* the loader, with N the size of the data set; loss is the sum of the batch
\* losses, H the sum of the batch curvatures and n_data is N
C12_OnePass ==
    [][(la.cls \in Parametric /\ ret'.op = "fit" /\ ret'.exc = "none")
       => LET loader == ret'.args[2]
              bs == Batches(loader)
              N == Len(loader.dataset)
          IN /\ ret'.calls = [k \in 1..Len(bs) |->
                                 [fn |-> CurvMethod(la), batch |-> bs[k], N |-> N]]
             /\ la'.loss = SumSeq([k \in 1..Len(bs) |-> BackendLoss(bs[k])])
             /\ Get(la'.H).val = SumSeq([k \in 1..Len(bs) |-> BackendCurv(bs[k])])
             /\ la'.n_data = Some(N)]_vars

\* a completed pass over two batches of different losses
C12_Witness ==
    /\ la.cls \in Parametric
    /\ ret.op = "fit"
    /\ ret.exc = "none"
    /\ Len(ret.calls) = 2
    /\ ret.calls[1].batch = <<2>>
    /\ ret.calls[2].batch = <<1>>
    /\ la.loss = 3

\* C13: on a fitted instance a prediction, a read of a posterior quantity or
\* of log_likelihood and an evaluation of log_marginal_likelihood leave loss,
\* n_data and n_outputs as the fit set them
C13_ScalarsSetOnce ==
    [][(/\ Fitted(la)
        /\ ret'.op \in Queries \cup {"log_marginal_likelihood", "__call__",
                                     "predictive_samples"})
       => (/\ la'.loss = la.loss
           /\ la'.n_data = la.n_data
           /\ la'.n_outputs = la.n_outputs)]_vars

\* the queries C14 is about
C14_Queries == {"posterior_precision", "log_det_posterior_precision",
                "log_det_ratio", "functional_variance"}

\* C14: on a fitted Full, Kron or Diag instance posterior_precision,
\* log_det_posterior_precision, log_det_ratio and functional_variance leave
\* the model and every attribute but the cached scale as they were, a filled
\* cache included, and only a FullLaplace fills the cache; the result does
\* not depend on the cache, and a query repeated at once returns what it
\* returned before
C14_QueriesReadOnly ==
    [][(/\ la.cls \in Parametric
        /\ Fitted(la)
        /\ ret'.op \in C14_Queries)
       => (/\ la' = [la EXCEPT !._posterior_scale = la'._posterior_scale]
           /\ model' = model
           /\ la._posterior_scale # None => la' = la
           /\ la.cls # "FullLaplace" => la' = la
           /\ LET w == QueryOf(World([la EXCEPT !._posterior_scale = None], model),
                               ret'.op)
              IN ret'.exc = w.exc /\ ret'.val = w.val
           /\ (ret.op = ret'.op /\ ret.exc = "none")
              => (ret'.exc = "none" /\ ret'.val = ret.val))]_vars

\* log_det_ratio read from a FullLaplace whose prior precision was changed
\* after the fit and whose cache an earlier query filled
C14_Witness ==
    /\ la.cls = "FullLaplace"
    /\ Fitted(la)
    /\ ret.op = "log_det_ratio"
    /\ ret.exc = "none"
    /\ la._posterior_scale # None
    /\ la._prior_precision = <<2>>

\* C15: log_marginal_likelihood of a fitted FunctionalLaplace for
\* classification never returns a value; it raises NotImplementedError
\* whenever its arguments are accepted (no sigma_noise, and no
\* prior_precision or one of a valid shape)
C15_NotImplemented ==
    [][(/\ la.cls = "FunctionalLaplace"
        /\ la.likelihood = "classification"
        /\ Fitted(la)
        /\ ret'.op = "log_marginal_likelihood")
       => (/\ ret'.exc # "none"
           /\ ret'.val = None
           /\ (/\ ret'.args[2] = None
               /\ \/ ret'.args[1] = None
                  \/ ~C8_Invalid(Get(ret'.args[1]), la))
              => ret'.exc = "NotImplementedError")]_vars

\* the plain call log_marginal_likelihood() refused
C15_Witness ==
    /\ la.cls = "FunctionalLaplace"
    /\ la.likelihood = "classification"
    /\ Fitted(la)
    /\ ret.op = "log_marginal_likelihood"
    /\ ret.args = <<None, None>>
    /\ ret.exc = "NotImplementedError"

\* C16: the constructor of FunctionalLaplace returns for a classification
\* likelihood with backend BackPackGGN and with backend AsdlGGN, for every M
\* and kernel structure (diagonal_L left at its default)
C16_BackendAccepted ==
    (/\ ret.op = "__init__"
     /\ ret.args # <<>>
     /\ ret.args[1].cls = "FunctionalLaplace"
     /\ ret.args[1].likelihood = "classification"
     /\ ret.args[1].backend \in {"BackPackGGN", "AsdlGGN"}
     /\ ret.args[1].diagonal_L)
    => ret.exc = "none"

\* the layer parameter i belongs to: the first layer up to which the layers
\* hold i parameters or more
C18_LayerOf(i, layers) ==
    CHOOSE l \in 1..Len(layers) :
        /\ SumSeq(SubSeq(layers, 1, l)) >= i
        /\ SumSeq(SubSeq(layers, 1, l - 1)) < i

\* C18: a read of prior_precision_diag returns a vector of n_params
\* elements; for a stored prior precision of one element every entry is
\* that element, for one of n_layers elements the entry of a parameter is
\* the element of its layer, for one of n_params elements the vector is the
\* stored one; where two of these lengths are the same number both readings
\* hold of the one vector returned
C18_PriorDiag ==
    ret.op = "prior_precision_diag"
    => (/\ ret.exc = "none"
        /\ LET d == Get(ret.val)
               pp == la._prior_precision
           IN /\ Len(d) = n_params(la)
              /\ Len(pp) = 1 => \A i \in 1..n_params(la) : d[i] = pp[1]
              /\ Len(pp) = n_layers(la)
                 => \A i \in 1..n_params(la) : d[i] = pp[C18_LayerOf(i, la.layers)]
              /\ Len(pp) = n_params(la) => d = pp)

\* a per-layer prior precision expanded for a model of two layers, the
\* second of two parameters
C18_Witness ==
    /\ ret.op = "prior_precision_diag"
    /\ ret.exc = "none"
    /\ la.layers = <<1, 2>>
    /\ la._prior_precision = <<1, 2>>
    /\ Get(ret.val) = <<1, 2, 2>>

\* a sampling call of the GLM or GP predictive of a fitted instance: the
\* 'mc' link of a classification prediction, or predictive_samples; the
\* value is whether the output covariance was positive definite
C19_Sampled(r, l) ==
    /\ Fitted(l)
    /\ \/ /\ r.op = "__call__"
          /\ l.likelihood = "classification"
          /\ r.args[1] = (IF l.cls = "FunctionalLaplace" THEN "gp" ELSE "glm")
          /\ r.args[2] = "mc"
       \/ /\ r.op = "predictive_samples"
          /\ l.cls # "FunctionalLaplace" => r.args[1] = "glm"

\* the flag pd of such a call
C19_PositiveDefinite(r) == IF r.op = "__call__" THEN r.args[5] ELSE r.args[4]

\* C19: a sampling call that meets an output covariance that is not positive
\* definite returns
C19_CovarianceRecovered ==
    (C19_Sampled(ret, la) /\ ~C19_PositiveDefinite(ret)) => ret.exc = "none"

\* the calls of _kernel_batch of call record r, in order
C20_KernelCalls(r) == SelectSeq(r.calls, LAMBDA c : c.fn = "_kernel_batch")

\* the pairs (i, j), j >= i, of B batches in the order of the two loops
RECURSIVE C20_UpperPairs(_, _, _)
C20_UpperPairs(B, i, j) ==
    IF i >= B THEN <<>>
    ELSE IF j >= B THEN C20_UpperPairs(B, i + 1, i + 1)
    ELSE <<(<<i, j>>)>> \o C20_UpperPairs(B, i, j + 1)

\* C20: after a fit of FunctionalLaplace that returns, over B batches of the
\* inducing points, the kernel has been computed exactly for the batch pairs
\* (i, j) with j >= i, B * (B + 1) / 2 times; every block (i, j) and every
\* entry of K_MM has been written; entry (r, c) is the kernel of the rows r
\* and c, and across two different blocks entry (c, r) is the value stored
\* at (r, c); the row ranges [i * b, min((i + 1) * b, M)) of the batches are
\* non-empty, pairwise disjoint and cover [0, M)
C20_KernelBlocks ==
    (la.cls = "FunctionalLaplace" /\ ret.op = "fit" /\ ret.exc = "none")
    => LET u == RowsPerPoint(la)
           b == Get(la.batch_size) * u
           M == Get(la.M) * u
           B == Cardinality({k \in DOMAIN ret.calls : ret.calls[k].fn = "gp_quantities"})
           K == Get(la.K_MM)
           kc == C20_KernelCalls(ret)
       IN /\ [k \in DOMAIN kc |-> kc[k].pair] = C20_UpperPairs(B, 0, 0)
          /\ 2 * Len(kc) = B * (B + 1)
          /\ K.blocks = (0..(B - 1)) \X (0..(B - 1))
          /\ DOMAIN K.entries = (0..(M - 1)) \X (0..(M - 1))
          /\ \A rc \in DOMAIN K.entries :
                 /\ K.entries[rc] # None
                 /\ Get(K.entries[rc]) \in {rc, <<rc[2], rc[1]>>}
          /\ \A i, j \in 0..(B - 1) : i # j =>
                 \A r \in Slice(i, b, M), c \in Slice(j, b, M) :
                     K.entries[<<c, r>>] = K.entries[<<r, c>>]
          /\ \A i \in 0..(B - 1) : Slice(i, b, M) # {}
          /\ \A i, j \in 0..(B - 1) : i # j => Slice(i, b, M) \cap Slice(j, b, M) = {}
          /\ UNION {Slice(i, b, M) : i \in 0..(B - 1)} = 0..(M - 1)

\* a fit over three inducing points in batches of two: two batches, the last
\* one partial, three kernel computations, and the full kernel of two rows
\* per point
C20_Witness ==
    /\ la.cls = "FunctionalLaplace"
    /\ ret.op = "fit"
    /\ ret.exc = "none"
    /\ la.M = Some(3)
    /\ la.batch_size = Some(2)
    /\ RowsPerPoint(la) = 2
    /\ Len(C20_KernelCalls(ret)) = 3
    /\ Get(la.K_MM).entries[<<5, 0>>] = Some(<<0, 5>>)

\* the entries of two square matrices of the same size differ by at most tol
C17_Close(A, B, tol) ==
    \A i \in 1..Len(A), j \in 1..Len(A) :
        /\ RLeq(RSub(A[i][j], B[i][j]), tol)
        /\ RLeq(RSub(B[i][j], A[i][j]), tol)

\* C17: for a regression likelihood, M the size of the training set and
\* diagonal_kernel False (or a single output), the predictive mean of the
\* fitted FunctionalLaplace equals the GLM predictive mean of the fitted
\* FullLaplace of the same model, prior precision and noise, and every entry
\* of the two predictive variances agrees within 1e-2, on every test input
C17_GPEquivalence ==
    (ret.op = "__call__" /\ (~la.functional_gp_la.diagonal_kernel \/ model.n_outputs = 1))
    => /\ Get(ret.val).gp.f_mu = Get(ret.val).full.f_mu
       /\ C17_Close(Get(ret.val).gp.f_var, Get(ret.val).full.f_var, <<1, 100>>)

\* C21: every pass fit has run the module in (the forward pass that gives the
\* output dimensionality, the calls of the curvature backend) found the
\* module in evaluation mode
C21_EvalBeforePasses ==
    \A m \in model.modes : m[2] = FALSE

\* the evaluations of log_marginal_likelihood of call record r, in order
C22_Evaluations(r) == SelectSeq(r.calls, LAMBDA c : c.fn = "log_marginal_likelihood")

\* a call of optimize_prior_precision with method 'marglik' on a fitted
\* instance returned, and left the instance as l
C22_Returned(l0, r, l) ==
    LET steps == r.args[3]
        evals == C22_Evaluations(r)
    IN /\ Len(evals) = Len(steps)
       /\ \A k \in 1..Len(steps) :
              /\ evals[k].prior_precision
                     = <<ExpOf(LogOf(r.args[2]) + SumSeq(SubSeq(steps, 1, k - 1)))>>
              /\ evals[k].prior_precision[1] > 0
       /\ l._prior_precision[1] > 0
       /\ steps = <<>> => l._prior_precision = <<r.args[2]>>

C24_FailedFitUnfitted ==
    [][(ret'.op = "fit" /\ ret'.exc # "none" /\ ~Ok(CheckFit(World(la, model))))
       => /\ ~Ok(CheckFit(World(la', model')))
          /\ la'.cls \in Parametric => la'.H = None]_vars

\* C25: the inducing-point kernel K_MM inside the factor a returned gp
\* prediction used was built with the prior precision the test-point kernels
\* of the same prediction were built with
C25_KernelsConsistent ==
    (/\ la.cls = "FunctionalLaplace"
     /\ la.likelihood = "regression"
     /\ ret.op = "__call__"
     /\ ret.exc = "none")
    => Get(ret.val).Sigma_inv.K.prior = Get(ret.val).K_star.prior

\* C26: in every state of a FullLaplace a non-empty cached posterior scale is
\* the scale of the current H, prior precision, noise scale and temperature
C26_CacheCurrent ==
    (la.cls = "FullLaplace" /\ la.H # None /\ la._posterior_scale # None)
    => la._posterior_scale = Some(C5_ScaleOf(la))

\* C27: the prior precision stored by a KronLaplace has 1 or n_layers
\* elements in every state
C27_KronPriorShape ==
    la.cls = "KronLaplace" => Len(la._prior_precision) \in {1, n_layers(la)}

\* C28: an optimize_prior_precision call that raises for an unknown method,
\* for method 'CV' without a validation loader or for method 'marglik' on an
\* instance whose _check_fit raises leaves the stored prior precision
C28_PriorKept ==
    [][(/\ ret'.op = "optimize_prior_precision"
        /\ ret'.exc # "none"
        /\ \/ ret'.args[1] \notin {"marglik", "CV"}
           \/ ret'.args[1] = "CV" /\ ret'.args[3] = None
           \/ ret'.args[1] = "marglik" /\ ~Ok(CheckFit(World(la, model))))
       => la'._prior_precision = la._prior_precision]_vars

\* C29: a log_marginal_likelihood call that raises because _check_fit raises
\* or because sigma_noise was passed on an instance that is not a regression
\* leaves the stored prior precision and noise scale; a call that returns has
\* stored the arguments it was given
C29_ArgumentsAtomic ==
    [][ret'.op = "log_marginal_likelihood"
       => /\ (/\ ret'.exc # "none"
              /\ \/ ~Ok(CheckFit(World(la, model)))
                 \/ ret'.args[2] # None /\ la.likelihood # "regression")
             => (/\ la'._prior_precision = la._prior_precision
                 /\ la'._sigma_noise = la._sigma_noise)
          /\ ret'.exc = "none"
             => (/\ ret'.args[1] # None
                    => la'._prior_precision = Get(ret'.args[1]).data
                 /\ ret'.args[2] # None
                    => la'._sigma_noise = Get(ret'.args[2]).data[1])]_vars

\* C30: a sampling prediction (pred_type 'nn') that returns leaves the
\* model's parameters as they were immediately before the call, and no
\* operation after construction reassigns map_estimate
C30_ParamsPreserved ==
    [][/\ (/\ ret'.op \in {"__call__", "predictive_samples"}
           /\ la.cls \in Parametric
           /\ ret'.args[1] = "nn"
           /\ ret'.exc = "none")
          => model'.params = model.params
       /\ ret'.op # "__init__" => la'.map_estimate = la.map_estimate]_vars

Next ==
    \/ AssignPriorPrecision
    \/ AssignSigmaNoise
    \/ Fit
    \/ Query
    \/ MarginalLikelihood
    \/ Predict
    \/ PredictSamples
    \/ OptimizeCV
    \/ OptimizeMarglik

\* the whole interface
Spec == Init /\ [][Next]_vars

\* fitting under changing hyperparameters
NextFit ==
    \/ AssignPriorPrecision
    \/ AssignSigmaNoise
    \/ Fit

SpecFit == Init /\ [][NextFit]_vars

\* fitting and every query
NextQuery ==
    \/ Fit
    \/ Query
    \/ MarginalLikelihood
    \/ Predict
    \/ PredictSamples

SpecQuery == Init /\ [][NextQuery]_vars

\* fitting and the reads of a fitted instance
NextRead ==
    \/ FitData
    \/ Query
    \/ MarginalLikelihood

SpecRead == Init /\ [][NextRead]_vars

\* every call that needs a fitted instance, before and after a fit
NextCalls ==
    \/ FitData
    \/ Query
    \/ MarginalLikelihood
    \/ Predict
    \/ PredictSamples

SpecCalls == Init /\ [][NextCalls]_vars

\* fitting and prediction
NextPredict ==
    \/ Fit
    \/ Predict
    \/ PredictSamples

SpecPredict == Init /\ [][NextPredict]_vars

\* every assignment of the hyperparameters
NextPrior ==
    \/ AssignPriorPrecision
    \/ AssignSigmaNoise
    \/ Fit
    \/ MarginalLikelihood

SpecPrior == Init /\ [][NextPrior]_vars

\* the cross-validated grid search on an instance whose fits complete
NextCV ==
    \/ FitData
    \/ OptimizeCV

SpecCV == Init /\ [][NextCV]_vars

\* a FullLaplace under every operation that reads or invalidates the cached
\* posterior scale
InitFull == Init /\ la.cls = "FullLaplace"

NextCache ==
    \/ AssignPriorPrecision
    \/ AssignSigmaNoise
    \/ FitData
    \/ Query
    \/ MarginalLikelihood
    \/ OptimizeCVShort
    \/ OptimizeMarglik

SpecCache == InitFull /\ [][NextCache]_vars

\* one pass over the batches of a loader, under changing hyperparameters
NextPass ==
    \/ AssignPriorPrecision
    \/ FitBatched

SpecPass == Init /\ [][NextPass]_vars

\* construction with every backend class, and fit
NextBackend ==
    \/ New
    \/ FitData

SpecBackend == Init /\ [][NextBackend]_vars

\* construction and fit of the functional class
InitFunctional == Init /\ la.cls = "FunctionalLaplace"

NextGP ==
    \/ NewFunctional
    \/ FitKernel

SpecGP == InitFunctional /\ [][NextGP]_vars

\* the prior precision assigned and expanded, for every architecture
NextExpand ==
    \/ AssignPriorPrecision
    \/ ReadPriorDiag

SpecExpand == InitArchitecture /\ [][NextExpand]_vars

\* sampling from the Gaussian over the outputs of a fitted instance
NextSampling ==
    \/ FitData
    \/ PredictCov
    \/ PredictSamplesCov

SpecSampling == Init /\ [][NextSampling]_vars

(***************************************************************************)
(* test_gp_equivalence_regression: a FullLaplace and a FunctionalLaplace   *)
(* of one model, likelihood 'regression', with the same prior precision    *)
(* and noise, M the size of the training set; both are fitted on the same  *)
(* loader and called on the same test input.                               *)
(***************************************************************************)
NParams == 2
TestInputs == 1..MaxInputs
JacRowVals == {<<1, 0>>, <<-1, 2>>}
NumPriorVals == {1, 2}

\* the model of c outputs with the Jacobians j at the inputs (what
\* backend.jacobians returns for it)
NumModel(c, j) ==
    [n_outputs |-> c, n_params |-> NParams, jac |-> j,
     out |-> [x \in TestInputs |-> [k \in 1..c |-> x]]]

\* FullLaplace(model, 'regression', sigma_noise=sn, prior_precision=pp)
NumFullNew(pp, sn) ==
    [prior_precision |-> pp, _sigma_noise |-> sn, temperature |-> 1,
     H |-> None, n_data |-> None]

\* FunctionalLaplace(model, 'regression', M=len(X_train), sigma_noise=sn,
\*                   diagonal_kernel=dk, prior_precision=pp)
NumGPNew(pp, sn, dk) ==
    [prior_precision |-> pp, _sigma_noise |-> sn, temperature |-> 1,
     diagonal_kernel |-> dk, M |-> 0, n_outputs |-> None, batch_size |-> 0,
     n_data |-> None, train_loader |-> None, prior_factor_sod |-> None,
     lambdas |-> <<>>, K_MM |-> <<>>, Sigma |-> None]

InitEquivalence ==
    \E c \in 1..MaxOutputs, pp \in NumPriorVals, sn \in SigmaVals, dk \in BOOLEAN :
      \E j \in [TestInputs -> [1..c -> JacRowVals]] :
        /\ model = NumModel(c, j)
        /\ la = [full_la |-> NumFullNew(pp, sn), functional_gp_la |-> NumGPNew(pp, sn, dk)]
        /\ ret = [op |-> "__init__", args |-> <<>>, exc |-> "none", val |-> None,
                  calls |-> <<>>]
        /\ fit_called = FALSE

\* full_la.fit(train_loader); functional_gp_la.fit(train_loader)
TestFit ==
    /\ ~fit_called
    /\ \E d \in SeqsOf(TestInputs, 1, MaxData), b \in 1..MaxBatch :
           /\ la' = [full_la |-> NumFullFit(la.full_la, model, Loader(d, b)),
                     functional_gp_la |-> NumGPFit(la.functional_gp_la, model, Loader(d, b))]
           /\ ret' = [op |-> "fit", args |-> <<Loader(d, b)>>, exc |-> "none",
                      val |-> None, calls |-> <<>>]
    /\ fit_called' = TRUE
    /\ UNCHANGED model

\* full_la(X_test) and functional_gp_la(X_test) at one test input
TestCall ==
    /\ fit_called
    /\ \E x \in TestInputs :
           ret' = [op |-> "__call__", args |-> <<x>>, exc |-> "none",
                   val |-> Some([full |-> NumGLMPredictive(la.full_la, model, x),
                                 gp |-> NumGPPosterior(la.functional_gp_la, model, x)]),
                   calls |-> <<>>]
    /\ UNCHANGED <<la, model, fit_called>>

NextEquivalence ==
    \/ TestFit
    \/ TestCall

SpecEquivalence == InitEquivalence /\ [][NextEquivalence]_vars

\* fitting and the optimisation of the prior precision by the marginal
\* likelihood
NextMarglik ==
    \/ FitData
    \/ OptimizeMarglikAny

SpecMarglik == Init /\ [][NextMarglik]_vars

\* construction of the functional class with every pair of flags, fit,
\* prediction and the marginal likelihood
NextFlags ==
    \/ NewFlags
    \/ FitData
    \/ Predict
    \/ MarginalLikelihood

SpecFlags == InitFunctional /\ [][NextFlags]_vars

\* a FunctionalLaplace fitted, its hyperparameters assigned, and predictions
NextStale ==
    \/ FitData
    \/ AssignPriorPrecision
    \/ AssignSigmaNoise
    \/ Predict

SpecStale == InitFunctional /\ [][NextStale]_vars

\* a FullLaplace whose hyperparameters and temperature are assigned between
\* the accesses that fill and read the cached scale
NextTemperature ==
    \/ AssignPriorPrecision
    \/ AssignSigmaNoise
    \/ AssignTemperature
    \/ FitData
    \/ Query

SpecTemperature == InitFull /\ [][NextTemperature]_vars

\* predictions of a model whose parameters are changed from outside
NextParams ==
    \/ UpdateParams
    \/ FitData
    \/ Predict
    \/ PredictSamples

SpecParams == Init /\ [][NextParams]_vars

====
